---- MODULE Spec2Model ----
(***************************************************************************)
(* Fleet lifecycle orchestrator of Hetzner-cloudRecreate.                  *)
(*                                                                         *)
(*   src/hetzner-monit-neo.py  time window scheduler, address-churning     *)
(*                             rebuild, reconciler, poll cycle             *)
(*   src/hetzner.py            address-preserving rebuild                  *)
(*                                                                         *)
(* Wall-clock times are minutes since midnight (0..1439).  Every external  *)
(* call (provider, registry, notifier) is appended to a call log, and the  *)
(* answers of the provider are read from a script, so that a method is an  *)
(* operator from (object state, script) to (object state, result, log).    *)
(***************************************************************************)
EXTENDS Integers, Sequences, FiniteSets, TLC

VARIABLES
    tw,     \* the TimeWindowManager object: window bounds and sticky flags
    now,    \* the wall clock at its last reading, minutes since midnight
    win,    \* SpecWindow: the last membership test and its inputs
    mgr,    \* the HetznerServerManager's configuration (fixed at construction)
    rb,     \* SpecRebuild: the last rebuild, its inputs, outcome and call log
    pc,     \* run_monitor's position: "check" or "countdown"
    cyc,    \* the poll cycle that has just run: its inputs, action and call log
    prev,   \* the cycle before, if it was a teardown: its last clock reading
    torn    \* a teardown completed and no clock reading since was in the window

vars == <<tw, now, win, mgr, rb, pc, cyc, prev, torn>>

Idle == [kind |-> "idle"]

(***************************************************************************)
(* datetime.time(hour, minute), as minutes since midnight.                 *)
(***************************************************************************)
dt_time(hour, minute) == hour * 60 + minute

(***************************************************************************)
(* TimeWindowManager                                                       *)
(***************************************************************************)
TimeWindowManager(start_hour, end_hour, end_minute) ==
    [ start_time       |-> dt_time(start_hour, 0),
      end_time         |-> dt_time(end_hour, end_minute),
      servers_deleted  |-> FALSE,
      servers_created  |-> FALSE,
      crosses_midnight |-> start_hour > end_hour ]

is_in_work_window_strict_end(t, n) ==
    IF t.crosses_midnight
    THEN n >= t.start_time \/ n < t.end_time
    ELSE t.start_time <= n /\ n < t.end_time

is_in_work_window(t, n) ==
    IF t.crosses_midnight
    THEN n >= t.start_time \/ n <= t.end_time
    ELSE t.start_time <= n /\ n <= t.end_time

should_delete_servers_unlatched(t, n) ==
    IF t.crosses_midnight
    THEN n > t.end_time /\ n < t.start_time
    ELSE n > t.end_time

should_delete_servers(t, n) ==
    IF t.servers_deleted
    THEN FALSE
    ELSE IF t.crosses_midnight
         THEN LET is_after_end    == n > t.end_time
                  is_before_start == n < t.start_time
              IN  is_after_end /\ is_before_start
         ELSE n > t.end_time

should_create_initial_servers(t, n) ==
    is_in_work_window(t, n) /\ ~t.servers_created

reset_flags_on_work_start_anytime(t, n) ==
    IF t.servers_deleted
    THEN [t EXCEPT !.servers_deleted = FALSE, !.servers_created = FALSE]
    ELSE t

reset_flags_on_work_start(t, n) ==
    IF is_in_work_window(t, n)
    THEN IF t.servers_deleted
         THEN [t EXCEPT !.servers_deleted = FALSE, !.servers_created = FALSE]
         ELSE t
    ELSE t

mark_as_deleted_forgetful(t) ==
    [t EXCEPT !.servers_created = FALSE]

mark_as_deleted(t) ==
    [t EXCEPT !.servers_deleted = TRUE, !.servers_created = FALSE]

mark_as_created(t) ==
    [t EXCEPT !.servers_created = TRUE]

(***************************************************************************)
(* Python's None and optional values: None is the empty sequence, a value  *)
(* x that is present is <<x>>.                                             *)
(***************************************************************************)
None == <<>>
Some(x) == <<x>>
IsNone(o) == o = <<>>
Get(o) == o[1]

(***************************************************************************)
(* The world outside the process.  fleet is the provider's list of servers *)
(* (records id, name, ipv4, image, outgoing_traffic, included_traffic),    *)
(* calls is the log of every request the provider has handled, and env is *)
(* the script the answers are read from:                                   *)
(*   env.list_fail   the GET /servers requests (by ordinal) that fail      *)
(*   env.del[id]     req: the answer to DELETE /servers/id ("ok", "err");  *)
(*                   gone_after: how many existence polls answer 200       *)
(*                   before the first 404; exc_at: the poll that raises    *)
(*                   (0: none)                                             *)
(*   env.create      the answers to successive POST /servers requests; the *)
(*                   last one repeats                                      *)
(* A 404 removes the server from fleet; a 201 adds the new one.            *)
(*                                                                         *)
(* The process can be interrupted (KeyboardInterrupt, which no `except     *)
(* Exception` clause catches) wherever it blocks: at a request and at a    *)
(* time.sleep.  points counts the requests and sleeps it has passed;       *)
(* budget is None, or Some([at |-> k, sent |-> b]) when the interrupt      *)
(* arrives at the point after the k-th.  At a request it arrives either    *)
(* before the request has left the process (b false: the provider sees     *)
(* nothing) or while the process waits inside requests.get/post/delete for *)
(* the answer (b true: the provider has handled the request, its effect on *)
(* fleet and dl has happened, and the answer is lost).  interrupted says   *)
(* that the interrupt has arrived; from then on the process sends nothing  *)
(* and changes nothing: the exception is on its way out of the call.  sent *)
(* says that the provider has handled the request of the latest Log.       *)
(***************************************************************************)
Call(op, target, st) == [op |-> op, target |-> target, st |-> st]

MaxOf(S) ==
    IF S = {} THEN 0
    ELSE LET x == CHOOSE y \in S : \A z \in S : z <= y IN x

\* The world at the start of an operation: the provider's fleet, the
\* registry's records, an empty log.  next_id and next_ip are the id and
\* the address the provider gives to the next server it creates;
\* after_reset is the time window object as reset_flags_on_work_start left
\* it (None until it has run).
World(fleet, dl, env) ==
    [ fleet       |-> fleet,
      dl          |-> dl,
      calls       |-> <<>>,
      env         |-> env,
      after_reset |-> None,
      budget      |-> None,
      points      |-> 0,
      interrupted |-> FALSE,
      sent        |-> FALSE,
      next_id     |-> 1 + MaxOf({fleet[i].id : i \in DOMAIN fleet}),
      next_ip     |-> 1 + MaxOf({Get(fleet[i].ipv4).ip :
                          i \in {j \in DOMAIN fleet : ~IsNone(fleet[j].ipv4)}}) ]

\* The same world, with a KeyboardInterrupt due at the point after the
\* k-th; sent: at a request, it arrives after the provider has handled it.
Until(w, k, sent) == [w EXCEPT !.budget = Some([at |-> k, sent |-> sent])]

\* The interrupt is due at the point the process has come to.
InterruptDue(w) == ~IsNone(w.budget) /\ Get(w.budget).at = w.points

\* A place where the process blocks: passed, or the interrupt arrives.
Point(w) ==
    LET at(p, due) ==
            IF p.interrupted THEN p
            ELSE IF due THEN [p EXCEPT !.interrupted = TRUE]
            ELSE [p EXCEPT !.points = @ + 1]
    IN  at(w, InterruptDue(w))

\* time.sleep(seconds).
Sleep(w) == Point(w)

\* A request: handled by the provider and answered st; or not sent, the
\* interrupt having arrived before; or handled by the provider while the
\* interrupt arrives in the wait for the answer.
Log(w, op, target, st) ==
    LET at(p, due) ==
            IF p.interrupted THEN [p EXCEPT !.sent = FALSE]
            ELSE IF due
            THEN IF Get(p.budget).sent
                 THEN [p EXCEPT !.interrupted = TRUE, !.sent = TRUE,
                                !.calls = Append(@, Call(op, target, st))]
                 ELSE [p EXCEPT !.interrupted = TRUE, !.sent = FALSE]
            ELSE [p EXCEPT !.points = @ + 1, !.sent = TRUE,
                           !.calls = Append(@, Call(op, target, st))]
    IN  at(w, InterruptDue(w))

\* w2, the world after the provider's side of the request that Log made w
\* from, unless the provider never saw the request.
IfSent(w, w2) == IF w.sent THEN w2 ELSE w

CountCalls(calls, op) == Cardinality({i \in DOMAIN calls : calls[i].op = op})

RemoveServer(fleet, id) == SelectSeq(fleet, LAMBDA s : s.id # id)

\* HetznerServerManager.get_servers: the list, or None when the request fails.
get_servers(w) ==
    LET k == CountCalls(w.calls, "list") + 1
    IN  IF k \in w.env.list_fail
        THEN [w |-> Log(w, "list", 0, "err"), ret |-> None]
        ELSE [w |-> Log(w, "list", 0, "ok"),  ret |-> Some(w.fleet)]

\* Python's truth value of get_servers' result: None and [] are both false.
Truthy(servers) == ~IsNone(servers) /\ Len(Get(servers)) > 0

DeletePolls == 24
CreateAttempts == 3

\* The answer to the i-th existence poll (1-based) of server id.
PollAnswer(w, id, i) ==
    LET d == w.env.del[id]
    IN  IF d.exc_at = i THEN "exc"
        ELSE IF i > d.gone_after THEN "404"
        ELSE "200"

\* delete_server's polling loop, from poll i on.
RECURSIVE delete_server_poll(_, _, _)
delete_server_poll(w, id, i) ==
    IF i > DeletePolls
    THEN [w |-> w, ret |-> FALSE]
    ELSE LET a == PollAnswer(w, id, i)
         IN  IF a = "exc"
             THEN [w |-> Log(w, "poll", id, "exc"), ret |-> FALSE]
             ELSE IF a = "404"
             THEN [w   |-> LET s == Log(w, "poll", id, "404")
                           IN  IfSent(s, [s EXCEPT
                                          !.fleet = RemoveServer(@, id)]),
                   ret |-> TRUE]
             ELSE delete_server_poll(Sleep(Log(w, "poll", id, "200")),
                                     id, i + 1)

delete_server_unconfirmed(w, id) ==
    IF w.env.del[id].req = "err"
    THEN [w |-> Log(w, "delete", id, "err"), ret |-> FALSE]
    ELSE [w   |-> delete_server_poll(Log(w, "delete", id, "ok"), id, 1).w,
          ret |-> TRUE]

\* HetznerServerManager.delete_server (hetzner-monit-neo.py).
delete_server(w, id) ==
    IF w.env.del[id].req = "err"
    THEN [w |-> Log(w, "delete", id, "err"), ret |-> FALSE]
    ELSE delete_server_poll(Log(w, "delete", id, "ok"), id, 1)

\* The answer to the next POST /servers request.
CreateAnswer(w) ==
    LET k == CountCalls(w.calls, "create") + 1
    IN  IF k <= Len(w.env.create) THEN w.env.create[k]
        ELSE w.env.create[Len(w.env.create)]

\* The provider's side of an accepted create: a new server with a fresh id
\* and, unless the request names a primary address, a fresh address.
NewServer(w, name, snapshot_id, ipv4) ==
    [ id               |-> w.next_id,
      name             |-> name,
      ipv4             |-> IF IsNone(ipv4)
                           THEN Some([id |-> w.next_id, ip |-> w.next_ip])
                           ELSE ipv4,
      image            |-> Some([type |-> "snapshot", id |-> snapshot_id]),
      outgoing_traffic |-> 0,
      included_traffic |-> 100 ]

Created(w, name, snapshot_id, ipv4, server_type, st) ==
    LET s == Log(w, "create", server_type, st)
    IN  IfSent(s, [ s EXCEPT
                    !.fleet   = Append(@, NewServer(w, name, snapshot_id, ipv4)),
                    !.next_id = @ + 1,
                    !.next_ip = @ + 1 ])

(***************************************************************************)
(* create_server_with_types: the instance classes in priority order, up to *)
(* three requests per class.  Answers: "201"; "bad201" (a 201 whose body   *)
(* cannot be read: the KeyError is caught like a failed request);          *)
(* "ip_assigned" and "error" (a JSON body with an 'error' member: break);  *)
(* "nojson" (the body is no JSON: break); "noerrkey" (a JSON body without  *)
(* 'error': the next attempt follows); "exc" (the request raises: sleep,   *)
(* next attempt).  The except clause sleeps 5 s before the next attempt.   *)
(***************************************************************************)
RECURSIVE create_server_with_types_from(_, _, _, _, _, _)
create_server_with_types_from(w, m, name, snapshot_id, ti, attempt) ==
    IF ti > Len(m.server_types)
    THEN [w |-> w, ret |-> None]
    ELSE IF attempt >= CreateAttempts
    THEN create_server_with_types_from(w, m, name, snapshot_id, ti + 1, 0)
    ELSE LET server_type_id == m.server_types[ti]
             a == CreateAnswer(w)
         IN  IF a = "201"
             THEN [w   |-> Created(w, name, snapshot_id, None, server_type_id, a),
                   ret |-> Some([ id          |-> w.next_id,
                                  server_type |-> server_type_id,
                                  new_ip      |-> w.next_ip ])]
             ELSE IF a = "bad201"
             THEN create_server_with_types_from(
                      Sleep(Created(w, name, snapshot_id, None,
                                    server_type_id, a)),
                      m, name, snapshot_id, ti, attempt + 1)
             ELSE IF a \in {"ip_assigned", "error", "nojson"}
             THEN create_server_with_types_from(
                      Log(w, "create", server_type_id, a),
                      m, name, snapshot_id, ti + 1, 0)
             ELSE IF a = "exc"
             THEN create_server_with_types_from(
                      Sleep(Log(w, "create", server_type_id, a)),
                      m, name, snapshot_id, ti, attempt + 1)
             ELSE create_server_with_types_from(
                      Log(w, "create", server_type_id, a),
                      m, name, snapshot_id, ti, attempt + 1)

create_server_with_types_second_first(w, m, name, snapshot_id) ==
    create_server_with_types_from(w, m, name, snapshot_id, 2, 0)

\* A create that goes through the classes a second time when the first
\* round found none.
create_server_with_types_two_rounds(w, m, name, snapshot_id) ==
    LET again(c) ==
            IF IsNone(c.ret)
            THEN create_server_with_types_from(c.w, m, name, snapshot_id, 1, 0)
            ELSE c
    IN  again(create_server_with_types_from(w, m, name, snapshot_id, 1, 0))

create_server_with_types(w, m, name, snapshot_id) ==
    create_server_with_types_from(w, m, name, snapshot_id, 1, 0)

\* server['image']['id'] if the image is a snapshot, else None.
SnapshotId(server) ==
    IF ~IsNone(server.image) /\ Get(server.image).type = "snapshot"
    THEN Some(Get(server.image).id)
    ELSE None

\* server['public_net']['ipv4']['ip'] if there is one, else None.
ServerIp(server) ==
    IF ~IsNone(server.ipv4) THEN Some(Get(server.ipv4).ip) ELSE None

\* Python's `not x` for an optional integer: None and 0 are both false.
Falsy(o) == IsNone(o) \/ Get(o) = 0

Failure(name, error) ==
    [name |-> name, success |-> FALSE, error |-> error]

rebuild_server_unchecked(w, m, server) ==
    LET name == server.name
        old_ip == ServerIp(server)
        snapshot_id == SnapshotId(server)
        d == delete_server(w, server.id)
    IN  IF ~d.ret
        THEN [w |-> d.w, ret |-> Failure(name, "delete_failed")]
        ELSE LET c == create_server_with_types(d.w, m, name,
                         IF IsNone(snapshot_id) THEN 0 ELSE Get(snapshot_id))
             IN  IF IsNone(c.ret)
                 THEN [w |-> c.w, ret |-> Failure(name, "create_failed")]
                 ELSE [w |-> c.w,
                       ret |-> [ name |-> name, success |-> TRUE,
                                 new_ip |-> Get(c.ret).new_ip,
                                 old_ip |-> old_ip,
                                 server_type |-> Get(c.ret).server_type ]]

\* HetznerServerManager.rebuild_server (hetzner-monit-neo.py).
rebuild_server(w, m, server) ==
    LET name == server.name
        old_ip == ServerIp(server)
        snapshot_id == SnapshotId(server)
        created(c) ==
            IF IsNone(c.ret)
            THEN [w |-> c.w, ret |-> Failure(name, "create_failed")]
            ELSE [w   |-> IF m.qb_loadbalancer_url /\ ~Falsy(old_ip)
                          THEN Log(c.w, "lb_update_ip", 0, Get(c.ret).new_ip)
                          ELSE c.w,
                  ret |-> [ name |-> name,
                            success |-> TRUE,
                            new_ip |-> Get(c.ret).new_ip,
                            old_ip |-> old_ip,
                            server_type |-> Get(c.ret).server_type ]]
        deleted(d) ==
            IF ~d.ret
            THEN [w |-> d.w, ret |-> Failure(name, "delete_failed")]
            ELSE created(create_server_with_types(Sleep(d.w), m, name,
                                                  Get(snapshot_id)))
    IN  IF Falsy(snapshot_id)
        THEN [w |-> w, ret |-> Failure(name, "no_snapshot")]
        ELSE deleted(delete_server(w, server.id))

(***************************************************************************)
(* DownloaderAPI.  A string that the code searches is a sequence of        *)
(* tokens: an alias contains 'Hetzner' when one of its tokens is           *)
(* "Hetzner"; a clientUrl holds the address of its first address token.    *)
(* w.dl is the registry's list of downloader records (alias, clientUrl).   *)
(* Further script entries:                                                 *)
(*   env.dl_list_fail    the list request fails                            *)
(*   env.dl_modify_fail  the positions (in w.dl) whose modify request      *)
(*                       fails                                             *)
(* A Python dict is the sequence of its <<key, value>> pairs in insertion  *)
(* order.                                                                  *)
(***************************************************************************)
Txt(s) == [ip |-> FALSE, v |-> s]
Ip(a) == [ip |-> TRUE, v |-> a]

DictHas(d, k) == \E i \in DOMAIN d : d[i][1] = k
DictGet(d, k) ==
    IF DictHas(d, k)
    THEN Some(d[CHOOSE i \in DOMAIN d : d[i][1] = k][2])
    ELSE None
DictPut(d, k, v) ==
    IF DictHas(d, k)
    THEN [i \in DOMAIN d |-> IF d[i][1] = k THEN <<k, v>> ELSE d[i]]
    ELSE Append(d, <<k, v>>)

InSeq(x, s) == \E i \in DOMAIN s : s[i] = x

\* A list.remove(x) that leaves the list as it is.
RemoveFirst_keep(s, x) == s

\* list.remove(x): the list without the first occurrence of x.
RemoveFirst(s, x) ==
    LET i == CHOOSE j \in DOMAIN s :
                 s[j] = x /\ \A k \in DOMAIN s : s[k] = x => j <= k
    IN  [j \in 1 .. (Len(s) - 1) |-> IF j < i THEN s[j] ELSE s[j + 1]]

\* The registry's records with their position, those whose alias holds
\* 'Hetzner'; [] when the request fails.
get_hetzner_downloaders(w) ==
    IF w.env.dl_list_fail
    THEN [w |-> Log(w, "dl_list", 0, "err"), ret |-> <<>>]
    ELSE LET tagged == [i \in DOMAIN w.dl |->
                           [ pos |-> i, alias |-> w.dl[i].alias,
                             clientUrl |-> w.dl[i].clientUrl ]]
         IN  [w   |-> Log(w, "dl_list", 0, "ok"),
              ret |-> SelectSeq(tagged,
                                LAMBDA d : InSeq("Hetzner", d.alias))]

extract_ip_from_url(url) ==
    IF \E i \in DOMAIN url : url[i].ip
    THEN LET i == CHOOSE j \in DOMAIN url :
                      url[j].ip /\ \A k \in DOMAIN url : url[k].ip => j <= k
         IN  Some(url[i].v)
    ELSE None

\* old_url.replace(old_ip, new_ip)
ReplaceIp(url, old_ip, new_ip) ==
    [i \in DOMAIN url |-> IF url[i] = Ip(old_ip) THEN Ip(new_ip) ELSE url[i]]

update_downloader_ip(w, downloader, new_ip) ==
    LET old_url == downloader.clientUrl
        old_ip == extract_ip_from_url(old_url)
    IN  IF Len(old_url) = 0 \/ IsNone(old_ip)
        THEN [w |-> w, ret |-> FALSE]
        ELSE IF downloader.pos \in w.env.dl_modify_fail
        THEN [w |-> Log(w, "dl_modify", downloader.pos, "err"), ret |-> FALSE]
        ELSE [w   |-> LET s == Log(w, "dl_modify", downloader.pos, new_ip)
                      IN  IfSent(s, [s EXCEPT
                                       !.dl[downloader.pos].clientUrl =
                                           ReplaceIp(old_url, Get(old_ip),
                                                     new_ip)]),
              ret |-> TRUE]

\* current_ips after the first loop over the downloaders, from position i.
RECURSIVE sync_current_ips(_, _, _)
sync_current_ips(downloaders, i, current_ips) ==
    IF i > Len(downloaders) THEN current_ips
    ELSE LET current_ip == extract_ip_from_url(downloaders[i].clientUrl)
         IN  sync_current_ips(downloaders, i + 1,
                 IF ~IsNone(current_ip)
                 THEN DictPut(current_ips, downloaders[i].alias, Get(current_ip))
                 ELSE current_ips)

\* ip_counter: how many downloaders' clientUrl holds ip.
ip_counter(downloaders, ip) ==
    Cardinality({i \in DOMAIN downloaders :
                    extract_ip_from_url(downloaders[i].clientUrl) = Some(ip)})

\* The preserving loop over current_ips.items(), from item j.
RECURSIVE sync_preserve(_, _, _, _, _)
sync_preserve(current_ips, server_ips, duplicate_ips, j, st) ==
    IF j > Len(current_ips) THEN st
    ELSE LET alias == current_ips[j][1]
             current_ip == current_ips[j][2]
         IN  sync_preserve(current_ips, server_ips, duplicate_ips, j + 1,
                 IF InSeq(current_ip, server_ips)
                    /\ current_ip \notin duplicate_ips
                 THEN [ assignment |-> DictPut(st.assignment, alias, current_ip),
                        available_ips |->
                            IF InSeq(current_ip, st.available_ips)
                            THEN RemoveFirst(st.available_ips, current_ip)
                            ELSE st.available_ips ]
                 ELSE st)

\* A fallback that always gives the first live address.
fallback_ip_first(server_ips, assignment) == server_ips[1]

\* `server_ips[len(assignment) % len(server_ips)]`: the target of a
\* downloader reached when available_ips is empty.
fallback_ip(server_ips, assignment) ==
    server_ips[(Len(assignment) % Len(server_ips)) + 1]

\* The assigning loop over the downloaders, from position i.
RECURSIVE sync_assign(_, _, _, _)
sync_assign(downloaders, server_ips, i, st) ==
    IF i > Len(downloaders) THEN st
    ELSE LET alias == downloaders[i].alias
         IN  IF DictHas(st.assignment, alias)
             THEN sync_assign(downloaders, server_ips, i + 1, st)
             ELSE LET target_ip ==
                          IF Len(st.available_ips) > 0
                          THEN Head(st.available_ips)
                          ELSE fallback_ip(server_ips, st.assignment)
                  IN  sync_assign(downloaders, server_ips, i + 1,
                          [ assignment |->
                                DictPut(st.assignment, alias, target_ip),
                            available_ips |->
                                IF Len(st.available_ips) > 0
                                THEN Tail(st.available_ips)
                                ELSE st.available_ips ])

\* A test that never finds a downloader at its target.
AtTarget_never(current_ip, target_ip) == FALSE

\* `current_ip == target_ip`: the downloader is at its target already.
AtTarget(current_ip, target_ip) == current_ip = target_ip

\* The applying loop over the downloaders, from position i.
RECURSIVE sync_apply(_, _, _, _, _, _)
sync_apply(w, downloaders, current_ips, assignment, i, n) ==
    IF i > Len(downloaders) THEN [w |-> w, ret |-> n]
    ELSE LET alias == downloaders[i].alias
             target_ip == DictGet(assignment, alias)
             current_ip == DictGet(current_ips, alias)
         IN  IF IsNone(target_ip)
             THEN sync_apply(w, downloaders, current_ips, assignment, i + 1,
                             [n EXCEPT !.failed = @ + 1])
             ELSE IF AtTarget(current_ip, target_ip)
             THEN sync_apply(w, downloaders, current_ips, assignment, i + 1,
                             [n EXCEPT !.kept = @ + 1])
             ELSE LET u == update_downloader_ip(w, downloaders[i],
                                                Get(target_ip))
                  IN  sync_apply(u.w, downloaders, current_ips, assignment,
                                 i + 1,
                                 IF u.ret THEN [n EXCEPT !.updated = @ + 1]
                                 ELSE [n EXCEPT !.failed = @ + 1])

NoSync == [updated |-> 0, kept |-> 0, failed |-> 0]

\* A synchronisation that asks the registry for its records before it looks
\* at server_ips.
sync_downloaders_with_servers_list_first(w, server_ips) ==
    LET g == get_hetzner_downloaders(w)
    IN  [w |-> g.w, ret |-> NoSync, plan |-> <<>>]

\* DownloaderAPI.sync_downloaders_with_servers; plan is the assignment it
\* computed (empty when it returned early).
sync_downloaders_with_servers(w, server_ips) ==
    IF Len(server_ips) = 0
    THEN [w |-> w, ret |-> NoSync, plan |-> <<>>]
    ELSE LET g == get_hetzner_downloaders(w)
             downloaders == g.ret
         IN  IF Len(downloaders) = 0
             THEN [w |-> g.w, ret |-> NoSync, plan |-> <<>>]
             ELSE LET current_ips == sync_current_ips(downloaders, 1, <<>>)
                      duplicate_ips ==
                          { Get(extract_ip_from_url(downloaders[i].clientUrl)) :
                              i \in { k \in DOMAIN downloaders :
                                  LET ip == extract_ip_from_url(
                                                downloaders[k].clientUrl)
                                  IN  ~IsNone(ip) /\
                                      ip_counter(downloaders, Get(ip)) > 1 } }
                      kept == sync_preserve(current_ips, server_ips,
                                  duplicate_ips, 1,
                                  [ assignment |-> <<>>,
                                    available_ips |-> server_ips ])
                      planned == sync_assign(downloaders, server_ips, 1, kept)
                      a == sync_apply(g.w, downloaders, current_ips,
                                      planned.assignment, 1, NoSync)
                  IN  [w |-> a.w, ret |-> a.ret, plan |-> planned.assignment]

(***************************************************************************)
(* HetznerServerManager (hetzner-monit-neo.py): bulk provisioning, bulk    *)
(* teardown and the poll cycle.  The manager m is its configuration:       *)
(* time_window, telegram_notifier, downloader_api and qb_loadbalancer_url  *)
(* say whether the collaborator is configured; traffic_threshold is in     *)
(* percent.                                                                *)
(***************************************************************************)
InitialName(i) == <<"hetzner-server", i>>

\* create_initial_servers' loop, from server i on; time.sleep(5) between
\* two servers.
RECURSIVE create_initial_servers_from(_, _, _, _, _)
create_initial_servers_from(w, m, count, i, created) ==
    LET pause(x) == IF i < count THEN Sleep(x) ELSE x
        next(c) ==
            IF ~IsNone(c.ret)
            THEN create_initial_servers_from(
                     pause(IF m.qb_loadbalancer_url
                           THEN Log(c.w, "lb_update_ip", 0, Get(c.ret).new_ip)
                           ELSE c.w),
                     m, count, i + 1,
                     Append(created,
                            [ name |-> InitialName(i), success |-> TRUE,
                              new_ip |-> Get(c.ret).new_ip,
                              server_type |-> Get(c.ret).server_type ]))
            ELSE create_initial_servers_from(
                     pause(c.w), m, count, i + 1,
                     Append(created, Failure(InitialName(i), "create_failed")))
    IN  IF i > count THEN [w |-> w, ret |-> created]
        ELSE next(create_server_with_types(w, m, InitialName(i),
                                           Get(m.initial_snapshot_id)))

\* A provisioning loop that gives up at the first server that cannot be
\* created.
RECURSIVE create_initial_servers_until_failure_from(_, _, _, _, _)
create_initial_servers_until_failure_from(w, m, count, i, created) ==
    LET pause(x) == IF i < count THEN Sleep(x) ELSE x
        next(c) ==
            IF ~IsNone(c.ret)
            THEN create_initial_servers_until_failure_from(
                     pause(IF m.qb_loadbalancer_url
                           THEN Log(c.w, "lb_update_ip", 0, Get(c.ret).new_ip)
                           ELSE c.w),
                     m, count, i + 1,
                     Append(created,
                            [ name |-> InitialName(i), success |-> TRUE,
                              new_ip |-> Get(c.ret).new_ip,
                              server_type |-> Get(c.ret).server_type ]))
            ELSE [w   |-> c.w,
                  ret |-> Append(created,
                                 Failure(InitialName(i), "create_failed"))]
    IN  IF i > count THEN [w |-> w, ret |-> created]
        ELSE next(create_server_with_types(w, m, InitialName(i),
                                           Get(m.initial_snapshot_id)))

create_initial_servers_until_failure(w, m, count) ==
    IF Falsy(m.initial_snapshot_id)
    THEN [w |-> w, ret |-> <<>>]
    ELSE create_initial_servers_until_failure_from(w, m, count, 1, <<>>)

create_initial_servers(w, m, count) ==
    IF Falsy(m.initial_snapshot_id)
    THEN [w |-> w, ret |-> <<>>]
    ELSE create_initial_servers_from(w, m, count, 1, <<>>)

\* delete_all_servers_for_night's loop over servers, from position i.
RECURSIVE delete_all_from(_, _, _, _)
delete_all_from(w, servers, i, deleted) ==
    LET next(d) ==
            delete_all_from(d.w, servers, i + 1,
                Append(deleted,
                       IF d.ret
                       THEN [ name |-> servers[i].name, success |-> TRUE,
                              action |-> "night_delete" ]
                       ELSE Failure(servers[i].name, "delete_failed")))
    IN  IF i > Len(servers) THEN [w |-> w, ret |-> deleted]
        ELSE next(delete_server(w, servers[i].id))

\* A teardown that gives up at the first server whose delete fails.
RECURSIVE delete_all_until_failure_from(_, _, _, _)
delete_all_until_failure_from(w, servers, i, deleted) ==
    LET next(d) ==
            IF d.ret
            THEN delete_all_until_failure_from(d.w, servers, i + 1,
                     Append(deleted,
                            [ name |-> servers[i].name, success |-> TRUE,
                              action |-> "night_delete" ]))
            ELSE [w   |-> d.w,
                  ret |-> Append(deleted,
                                 Failure(servers[i].name, "delete_failed"))]
    IN  IF i > Len(servers) THEN [w |-> w, ret |-> deleted]
        ELSE next(delete_server(w, servers[i].id))

delete_all_servers_for_night_until_failure(w) ==
    LET listed(g) ==
            IF ~Truthy(g.ret)
            THEN [w |-> g.w, ret |-> <<>>]
            ELSE delete_all_until_failure_from(g.w, Get(g.ret), 1, <<>>)
    IN  listed(get_servers(w))

delete_all_servers_for_night(w) ==
    LET listed(g) ==
            IF ~Truthy(g.ret)
            THEN [w |-> g.w, ret |-> <<>>]
            ELSE delete_all_from(g.w, Get(g.ret), 1, <<>>)
    IN  listed(get_servers(w))

should_rebuild_more_servers_inclusive(m, current_count) ==
    IF m.max_servers = 0 THEN TRUE
    ELSE current_count <= m.max_servers

should_rebuild_more_servers(m, current_count) ==
    IF m.max_servers = 0 THEN TRUE
    ELSE current_count < m.max_servers

\* usage >= traffic_threshold, for usage = outgoing / included, included # 0.
UsageReaches(server, threshold) ==
    server.outgoing_traffic * 100 >= threshold * server.included_traffic

\* [ip of s for s in servers if s has an ipv4]
ServerIps(servers) ==
    LET with_ip == SelectSeq(servers, LAMBDA s : ~IsNone(s.ipv4))
    IN  [i \in DOMAIN with_ip |-> Get(with_ip[i].ipv4).ip]

\* result['downloader_sync'] = ... for every successful result.
Annotate(results, updated) ==
    [i \in DOMAIN results |->
        IF results[i].success
        THEN [ r \in DOMAIN results[i] \cup {"downloader_sync"} |->
                 IF r = "downloader_sync" THEN updated ELSE results[i][r] ]
        ELSE results[i]]

\* The monitoring loop over servers, from position i.  The division
\* outgoing / included raises ZeroDivisionError when included is 0.
RECURSIVE monitor_servers_from(_, _, _, _, _)
monitor_servers_from(w, m, servers, i, acc) ==
    IF i > Len(servers) THEN [w |-> w, acc |-> acc, raised |-> FALSE]
    ELSE LET server == servers[i]
             info == [ name |-> server.name,
                       outgoing_traffic |-> server.outgoing_traffic,
                       included_traffic |-> server.included_traffic ]
             rebuilt(r) ==
                 monitor_servers_from(r.w, m, servers, i + 1,
                     [acc EXCEPT
                        !.servers_info = Append(@, info),
                        !.high_traffic = Append(@, info),
                        !.processed = Append(@, r.ret),
                        !.rebuilt_count = IF r.ret.success THEN @ + 1 ELSE @])
         IN  IF server.included_traffic = 0
             THEN [w |-> w, acc |-> acc, raised |-> TRUE]
             ELSE IF ~UsageReaches(server, m.traffic_threshold)
             THEN monitor_servers_from(w, m, servers, i + 1,
                      [acc EXCEPT !.servers_info = Append(@, info)])
             ELSE IF should_rebuild_more_servers(m, acc.rebuilt_count)
             THEN rebuilt(rebuild_server(w, m, server))
             ELSE monitor_servers_from(w, m, servers, i + 1,
                      [acc EXCEPT
                         !.servers_info = Append(@, info),
                         !.high_traffic = Append(@, info),
                         !.processed =
                             Append(@, Failure(server.name, "limit_reached"))])

\* The step that follows bulk provisioning and the monitoring loop: fetch
\* the list again and synchronise the downloaders with its addresses.
SyncAfter(w, m, results, only_if_updated) ==
    LET synced(s) ==
            [w |-> s.w,
             results |-> IF only_if_updated /\ ~(s.ret.updated > 0)
                         THEN results
                         ELSE Annotate(results, s.ret.updated)]
        listed(g) ==
            IF ~Truthy(g.ret)
            THEN [w |-> g.w, results |-> results]
            ELSE IF Len(ServerIps(Get(g.ret))) = 0
            THEN [w |-> g.w, results |-> results]
            ELSE synced(sync_downloaders_with_servers(
                            g.w, ServerIps(Get(g.ret))))
    IN  IF ~(m.downloader_api /\ Len(results) > 0)
        THEN [w |-> w, results |-> results]
        ELSE listed(get_servers(w))

Report(w, m, kind, servers_info, high_traffic, results) ==
    IF m.telegram_notifier
    THEN Log(w, "notify", 0,
             [ kind |-> kind, servers_info |-> servers_info,
               high_traffic |-> high_traffic, processed |-> results ])
    ELSE w

Outcome(w, t, action, raised, results) ==
    [w |-> w, tw |-> t, action |-> action, raised |-> raised,
     results |-> results]

\* check_and_process_servers from `servers = self.get_servers()` on.
monitoring_pass(w, m, t) ==
    LET report(p, s) ==
            Outcome(Report(s.w, m, "check", p.acc.servers_info,
                           p.acc.high_traffic, s.results),
                    t, "PROCEED", FALSE, s.results)
        scanned(p) ==
            IF p.raised
            THEN Outcome(p.w, t, "PROCEED", TRUE, p.acc.processed)
            ELSE report(p, SyncAfter(p.w, m, p.acc.processed, TRUE))
        listed(g) ==
            IF ~Truthy(g.ret)
            THEN Outcome(g.w, t, "PROCEED", FALSE, <<>>)
            ELSE scanned(monitor_servers_from(g.w, m, Get(g.ret), 1,
                             [ servers_info |-> <<>>, high_traffic |-> <<>>,
                               processed |-> <<>>, rebuilt_count |-> 0 ]))
    IN  listed(get_servers(w))

provision_initial_no_default(w, m, t) ==
    LET reported(s, t1) ==
            Outcome(Report(s.w, m, "initial", <<>>, <<>>, s.results),
                    t1, "PROVISION_INITIAL", FALSE, s.results)
        created(c) ==
            reported(SyncAfter(c.w, m, c.ret, FALSE),
                     IF c.w.interrupted THEN t ELSE mark_as_created(t))
    IN  created(create_initial_servers(w, m, m.max_servers))

\* The bulk provisioning branch, entered when the list is None or empty.
\* mark_as_created() follows create_initial_servers, mark_as_deleted()
\* follows delete_all_servers_for_night: an interrupt inside either leaves
\* the flags as they were.
provision_initial(w, m, t) ==
    LET target_count == IF m.max_servers > 0 THEN m.max_servers ELSE 3
        reported(s, t1) ==
            Outcome(Report(s.w, m, "initial", <<>>, <<>>, s.results),
                    t1, "PROVISION_INITIAL", FALSE, s.results)
        created(c) ==
            reported(SyncAfter(c.w, m, c.ret, FALSE),
                     IF c.w.interrupted THEN t ELSE mark_as_created(t))
    IN  created(create_initial_servers(w, m, target_count))

\* The bulk teardown branch.
teardown(w, m, t) ==
    LET deleted(d) ==
            Outcome(Report(d.w, m, "night", <<>>, <<>>, d.ret),
                    IF d.w.interrupted THEN t ELSE mark_as_deleted(t),
                    "TEARDOWN", FALSE, d.ret)
    IN  deleted(delete_all_servers_for_night(w))

\* check_and_process_servers after the provisioning branch was not taken.
after_provision_check(w, m, t, reads) ==
    IF m.time_window /\ should_delete_servers(t, reads[3])
    THEN teardown(w, m, t)
    ELSE IF m.time_window /\ ~is_in_work_window(t, reads[4])
    THEN Outcome(w, t, "NONE", FALSE, <<>>)
    ELSE monitoring_pass(w, m, t)

\* HetznerServerManager.check_and_process_servers (hetzner-monit-neo.py).
\* t0 is the time window object; reads are the readings of the clock by
\* reset_flags_on_work_start, should_create_initial_servers,
\* should_delete_servers and is_in_work_window, in that order.
check_and_process_servers(w, m, t0, reads) ==
    LET t == IF m.time_window
             THEN reset_flags_on_work_start(t0, reads[1])
             ELSE t0
        w1 == IF m.time_window THEN [w EXCEPT !.after_reset = Some(t)] ELSE w
        listed(g) ==
            IF ~Truthy(g.ret)
            THEN provision_initial(g.w, m, t)
            ELSE after_provision_check(g.w, m, t, reads)
    IN  IF m.time_window /\ should_create_initial_servers(t, reads[2])
        THEN listed(get_servers(w1))
        ELSE after_provision_check(w1, m, t, reads)

(***************************************************************************)
(* hetzner.py: the address-preserving rebuild.  Further script entries:    *)
(*   env.poll_secs   the seconds one iteration of wait_for_server_deletion *)
(*                   takes (the request plus the 5 s sleep)                *)
(*   env.ip          free_after: how many polls of the primary address     *)
(*                   report an assignee before the first that reports      *)
(*                   none; exc_at: the poll that raises (0: none)          *)
(***************************************************************************)
MaxWait == 120
IpRetries == 12
MaxAttempts == 3

get_server_ipv4_id(server) ==
    IF ~IsNone(server.ipv4) THEN Some(Get(server.ipv4).id) ELSE None

\* wait_for_server_deletion's loop, from poll i on; the i-th test of the
\* deadline reads the clock (i - 1) iterations after the start.
RECURSIVE wait_for_server_deletion_from(_, _, _)
wait_for_server_deletion_from(w, id, i) ==
    IF ~((i - 1) * w.env.poll_secs < MaxWait)
    THEN [w |-> w, ret |-> FALSE, raised |-> FALSE]
    ELSE LET a == PollAnswer(w, id, i)
         IN  IF a = "exc"
             THEN [w |-> Log(w, "poll", id, "exc"),
                   ret |-> FALSE, raised |-> TRUE]
             ELSE IF a = "404"
             THEN [w   |-> LET s == Log(w, "poll", id, "404")
                           IN  IfSent(s, [s EXCEPT
                                            !.fleet = RemoveServer(@, id)]),
                   ret |-> TRUE, raised |-> FALSE]
             ELSE wait_for_server_deletion_from(
                      Sleep(Log(w, "poll", id, "200")), id, i + 1)

wait_for_server_deletion(w, id) == wait_for_server_deletion_from(w, id, 1)

\* HetznerServerManager.delete_server (hetzner.py).
hz_delete_server(w, id) ==
    IF w.env.del[id].req = "err"
    THEN [w |-> Log(w, "delete", id, "err"), ret |-> FALSE]
    ELSE LET r == wait_for_server_deletion(Log(w, "delete", id, "ok"), id)
         IN  [w |-> r.w, ret |-> r.ret]

\* The answer to the i-th poll (1-based) of the primary address.
IpAnswer(w, i) ==
    IF w.env.ip.exc_at = i THEN "exc"
    ELSE IF i > w.env.ip.free_after THEN "free"
    ELSE "assigned"

RECURSIVE wait_for_ip_ready_from(_, _, _)
wait_for_ip_ready_from(w, ipv4_id, i) ==
    IF i > IpRetries
    THEN [w |-> w, ret |-> FALSE]
    ELSE LET a == IpAnswer(w, i)
         IN  IF a = "free"
             THEN [w |-> Log(w, "ip_poll", ipv4_id, a), ret |-> TRUE]
             ELSE wait_for_ip_ready_from(
                      Sleep(Log(w, "ip_poll", ipv4_id, a)), ipv4_id, i + 1)

wait_for_ip_ready_optimistic(w, ipv4_id) ==
    [w |-> wait_for_ip_ready_from(w, ipv4_id, 1).w, ret |-> TRUE]

wait_for_ip_ready(w, ipv4_id) == wait_for_ip_ready_from(w, ipv4_id, 1)

HzServerType == 110

\* create_server_from_snapshot's retry loop, from attempt (0-based) on.
RECURSIVE create_server_from_snapshot_from(_, _, _, _, _)
create_server_from_snapshot_from(w, name, snapshot_id, ipv4, attempt) ==
    IF attempt >= MaxAttempts
    THEN [w |-> w, ret |-> None]
    ELSE LET a == CreateAnswer(w)
         IN  IF a = "201"
             THEN [w   |-> Created(w, name, snapshot_id, ipv4, HzServerType, a),
                   ret |-> Some(w.next_id)]
             ELSE IF a = "ip_assigned"
             THEN create_server_from_snapshot_from(
                      Sleep(Log(w, "create", HzServerType, a)),
                      name, snapshot_id, ipv4, attempt + 1)
             ELSE LET w2 == IF a = "bad201"
                            THEN Created(w, name, snapshot_id, ipv4,
                                         HzServerType, a)
                            ELSE Log(w, "create", HzServerType, a)
                  IN  IF attempt = MaxAttempts - 1
                      THEN [w |-> w2, ret |-> None]
                      ELSE create_server_from_snapshot_from(
                               Sleep(w2), name, snapshot_id, ipv4, attempt + 1)

create_server_from_snapshot(w, name, snapshot_id, ipv4) ==
    LET r == wait_for_ip_ready(w, Get(ipv4).id)
    IN  IF ~r.ret
        THEN [w |-> r.w, ret |-> None]
        ELSE create_server_from_snapshot_from(r.w, name, snapshot_id, ipv4, 0)

\* HetznerServerManager.process_high_traffic_server (hetzner.py).
hz_process_high_traffic_server(w, server, dry_run) ==
    LET server_id == server.id
        server_name == server.name
        snapshot_id == SnapshotId(server)
        ipv4_id == get_server_ipv4_id(server)
    IN  IF Falsy(snapshot_id) \/ Falsy(ipv4_id)
        THEN [w |-> w, ret |-> Failure(server_name, "missing_snapshot_or_ip")]
        ELSE IF dry_run
        THEN [w |-> w,
              ret |-> [ name |-> server_name, success |-> TRUE,
                        new_ip |-> Get(server.ipv4).ip ]]
        ELSE LET d == hz_delete_server(w, server_id)
             IN  IF ~d.ret
                 THEN [w |-> d.w, ret |-> Failure(server_name, "delete_failed")]
                 ELSE LET c == create_server_from_snapshot(
                                   d.w, server_name, Get(snapshot_id),
                                   server.ipv4)
                      IN  IF ~IsNone(c.ret)
                          THEN [w |-> c.w,
                                ret |-> [ name |-> server_name,
                                          success |-> TRUE,
                                          new_server_id |-> Get(c.ret),
                                          new_ip |-> Get(server.ipv4).ip ]]
                          ELSE [w |-> c.w,
                                ret |-> Failure(server_name, "rebuild_failed")]

\* The loop of check_and_process_servers (hetzner.py) over servers, from
\* position i.  The division outgoing / included raises ZeroDivisionError
\* when included is 0; no cap applies.
RECURSIVE hz_scan_from(_, _, _, _, _, _)
hz_scan_from(w, m, servers, dry_run, i, acc) ==
    IF i > Len(servers) THEN [w |-> w, acc |-> acc, raised |-> FALSE]
    ELSE LET server == servers[i]
             info == [ name |-> server.name,
                       outgoing_traffic |-> server.outgoing_traffic,
                       included_traffic |-> server.included_traffic ]
             processed(r) ==
                 hz_scan_from(r.w, m, servers, dry_run, i + 1,
                     [acc EXCEPT !.servers_info = Append(@, info),
                                 !.high_traffic = Append(@, info),
                                 !.processed = Append(@, r.ret)])
         IN  IF server.included_traffic = 0
             THEN [w |-> w, acc |-> acc, raised |-> TRUE]
             ELSE IF ~UsageReaches(server, m.traffic_threshold)
             THEN hz_scan_from(w, m, servers, dry_run, i + 1,
                      [acc EXCEPT !.servers_info = Append(@, info)])
             ELSE processed(hz_process_high_traffic_server(w, server, dry_run))

\* The report's kind: create_check_report is told whether the pass was a
\* preview.
ReportKind(dry_run) == IF dry_run THEN "preview" ELSE "check"

\* HetznerServerManager.check_and_process_servers (hetzner.py).
hz_check_and_process_servers(w, m, dry_run) ==
    LET scanned(p) ==
            IF p.raised
            THEN Outcome(p.w, Idle, "PROCEED", TRUE, p.acc.processed)
            ELSE Outcome(Report(p.w, m, ReportKind(dry_run),
                                p.acc.servers_info, p.acc.high_traffic,
                                p.acc.processed),
                         Idle, "PROCEED", FALSE, p.acc.processed)
        listed(g) ==
            IF ~Truthy(g.ret)
            THEN Outcome(g.w, Idle, "PROCEED", FALSE, <<>>)
            ELSE scanned(hz_scan_from(g.w, m, Get(g.ret), dry_run, 1,
                             [ servers_info |-> <<>>, high_traffic |-> <<>>,
                               processed |-> <<>> ]))
    IN  listed(get_servers(w))

(***************************************************************************)
(* unnamed/part_000: the snapshot variant.  Its rebuild is six requests in *)
(* a row (snapshot, power-off, unassign, delete, create, rebuild), each    *)
(* wrapped in a try that turns a failure into None or False; every one but *)
(* the last sleeps after response.raise_for_status() has passed and only  *)
(* then looks at the answer's action.error.  Script entries:               *)
(* env.p0_fail, the request that fails ("none": none does), and            *)
(* env.p0_answer, how it fails: "status" (an answer of status 4xx or 5xx,  *)
(* raise_for_status raises) or "action" (an answer 2xx whose action.error  *)
(* is set).                                                                *)
(***************************************************************************)
P0Answer(w, op) ==
    IF w.env.p0_fail # op THEN "ok"
    ELSE IF w.env.p0_answer = "action" THEN "action_error"
    ELSE "err"

p0_request(w, op, target) ==
    LET a == P0Answer(w, op)
    IN  [w |-> Log(w, op, target, a), answer |-> a]

\* The id the provider gives to the snapshot of server_id.
SnapIdOf(server_id) == 100 + server_id

\* The time.sleep that follows response.raise_for_status(), then the test
\* of action.error: True or False.
p0_slept(r) ==
    [ w   |-> IF r.answer = "err" THEN r.w ELSE Sleep(r.w),
      ret |-> r.answer = "ok" ]

\* create_snapshot: the snapshot id, or None.
p0_create_snapshot(w, server_id) ==
    LET r == p0_slept(p0_request(w, "snapshot", server_id))
    IN  [w |-> r.w,
         ret |-> IF r.ret THEN Some(SnapIdOf(server_id)) ELSE None]

p0_power_off_server(w, server_id) ==
    p0_slept(p0_request(w, "poweroff", server_id))

p0_unassign_ip(w, ipv4_id) == p0_slept(p0_request(w, "unassign", ipv4_id))

\* delete_server does not look at action.error: every answer 2xx is a
\* success.
p0_delete_server(w, server_id) ==
    LET r == p0_request(w, "delete", server_id)
    IN  [ w   |-> IF r.answer = "ok"
                  THEN Sleep(IfSent(r.w, [r.w EXCEPT
                                 !.fleet = RemoveServer(@, server_id)]))
                  ELSE IF r.answer = "action_error" THEN Sleep(r.w)
                  ELSE r.w,
          ret |-> r.answer # "err" ]

\* create_server: the new server (image ubuntu-20.04, the old primary
\* address), or None.
p0_create_server(w, name, ipv4) ==
    LET r == p0_request(w, "create", Get(ipv4).id)
    IN  IF r.answer = "ok"
        THEN [w   |-> Sleep(IfSent(r.w, [r.w EXCEPT
                         !.fleet = Append(@,
                             [NewServer(w, name, 0, ipv4) EXCEPT
                                 !.image = Some([type |-> "system", id |-> 0])]),
                         !.next_id = @ + 1])),
              ret |-> Some(w.next_id)]
        ELSE [w   |-> IF r.answer = "action_error" THEN Sleep(r.w) ELSE r.w,
              ret |-> None]

\* rebuild_server: the server's image becomes the snapshot.  No sleep.
p0_rebuild_server(w, server_id, snap_id) ==
    LET r == p0_request(w, "rebuild", server_id)
    IN  [w   |-> IF r.answer = "ok"
                 THEN IfSent(r.w, [r.w EXCEPT !.fleet =
                          [i \in DOMAIN @ |->
                              IF @[i].id = server_id
                              THEN [@[i] EXCEPT !.image =
                                      Some([type |-> "snapshot", id |-> snap_id])]
                              ELSE @[i]]])
                 ELSE r.w,
         ret |-> r.answer = "ok"]

\* HetznerServerManager.process_high_traffic_server (part_000): True or
\* False.  It reads server['public_net']['ipv4']['ip'] first of all, which
\* raises TypeError when the server has no address.
p0_process_high_traffic_server(w, server, dry_run) ==
    LET server_id == server.id
        ipv4_id == Get(server.ipv4).id
        no(r) == [w |-> r.w, ret |-> FALSE, raised |-> FALSE]
        rebuilt(r) == [w |-> r.w, ret |-> r.ret, raised |-> FALSE]
        created(c, snap_id) ==
            IF IsNone(c.ret) THEN no(c)
            ELSE rebuilt(p0_rebuild_server(c.w, Get(c.ret), snap_id))
        deleted(d, snap_id) ==
            IF ~d.ret THEN no(d)
            ELSE created(p0_create_server(d.w, server.name, server.ipv4),
                         snap_id)
        unassigned(u, snap_id) ==
            IF ~u.ret THEN no(u)
            ELSE deleted(p0_delete_server(u.w, server_id), snap_id)
        powered_off(p, snap_id) ==
            IF ~p.ret THEN no(p)
            ELSE unassigned(p0_unassign_ip(p.w, ipv4_id), snap_id)
        snapped(s) ==
            IF IsNone(s.ret) THEN no(s)
            ELSE powered_off(p0_power_off_server(s.w, server_id), Get(s.ret))
    IN  IF IsNone(server.ipv4)
        THEN [w |-> w, ret |-> FALSE, raised |-> TRUE]
        ELSE IF dry_run
        THEN [w |-> w, ret |-> TRUE, raised |-> FALSE]
        ELSE snapped(p0_create_snapshot(w, server_id))

\* `percent_usage > self.traffic_threshold`, percent_usage being 0 when
\* included_traffic is 0.
UsageExceeds(server, threshold) ==
    /\ server.included_traffic > 0
    /\ server.outgoing_traffic * 100 > threshold * server.included_traffic

\* The loop of check_and_process_servers (part_000) over servers, from
\* position i.  server['public_net']['ipv4']['ip'] raises when the server
\* has no address.
RECURSIVE p0_scan_from(_, _, _, _, _, _)
p0_scan_from(w, m, servers, dry_run, i, acc) ==
    IF i > Len(servers) THEN [w |-> w, acc |-> acc, raised |-> FALSE]
    ELSE LET server == servers[i]
             info == [ name |-> server.name,
                       outgoing_traffic |-> server.outgoing_traffic,
                       included_traffic |-> server.included_traffic ]
             processed(r) ==
                 IF r.raised
                 THEN [w |-> r.w, acc |-> acc, raised |-> TRUE]
                 ELSE p0_scan_from(r.w, m, servers, dry_run, i + 1,
                          [acc EXCEPT !.servers_info = Append(@, info),
                                      !.high_traffic = Append(@, info),
                                      !.processed =
                                          Append(@, [ name |-> server.name,
                                                      success |-> r.ret ])])
         IN  IF IsNone(server.ipv4)
             THEN [w |-> w, acc |-> acc, raised |-> TRUE]
             ELSE IF ~UsageExceeds(server, m.traffic_threshold)
             THEN p0_scan_from(w, m, servers, dry_run, i + 1,
                      [acc EXCEPT !.servers_info = Append(@, info)])
             ELSE processed(p0_process_high_traffic_server(w, server, dry_run))

\* HetznerServerManager.check_and_process_servers (part_000).
p0_check_and_process_servers(w, m, dry_run) ==
    LET scanned(p) ==
            IF p.raised
            THEN Outcome(p.w, Idle, "PROCEED", TRUE, p.acc.processed)
            ELSE Outcome(Report(p.w, m, ReportKind(dry_run),
                                p.acc.servers_info, p.acc.high_traffic,
                                p.acc.processed),
                         Idle, "PROCEED", FALSE, p.acc.processed)
        listed(g) ==
            IF ~Truthy(g.ret)
            THEN Outcome(g.w, Idle, "PROCEED", FALSE, <<>>)
            ELSE scanned(p0_scan_from(g.w, m, Get(g.ret), dry_run, 1,
                             [ servers_info |-> <<>>, high_traffic |-> <<>>,
                               processed |-> <<>> ]))
    IN  listed(get_servers(w))

(***************************************************************************)
(* The clock.  The model samples the day at the window boundaries of the   *)
(* two windows it configures, the minute on either side of each boundary,  *)
(* and a few times in between.                                             *)
(***************************************************************************)
ClockTimes ==
    { dt_time(0, 0),   dt_time(0, 1),   dt_time(7, 0),   dt_time(7, 59),
      dt_time(8, 0),   dt_time(8, 50),  dt_time(8, 51),  dt_time(9, 0),
      dt_time(10, 0),  dt_time(12, 0),  dt_time(21, 59), dt_time(22, 0),
      dt_time(23, 30), dt_time(23, 31), dt_time(23, 59) }

\* The next sample after n, wrapping at midnight.
NextTime(n) ==
    IF \E m \in ClockTimes : m > n
    THEN CHOOSE m \in ClockTimes : m > n /\ \A k \in ClockTimes : k > n => m <= k
    ELSE CHOOSE m \in ClockTimes : \A k \in ClockTimes : m <= k

(***************************************************************************)
(* SpecWindow: the membership test over every window configuration.        *)
(***************************************************************************)
Hours == 0 .. 23
EndMinutes == {0, 30, 50}

WindowObs(t, n) ==
    [ kind |-> "read", in_window |-> is_in_work_window(t, n) ]

InitWindow ==
    /\ \E sh \in Hours, eh \in Hours, em \in EndMinutes :
          tw = TimeWindowManager(sh, eh, em)
    /\ now \in ClockTimes
    /\ win = Idle
    /\ mgr = Idle
    /\ rb = Idle
    /\ pc = "idle"
    /\ cyc = Idle
    /\ prev = Idle
    /\ torn = FALSE

ReadClock ==
    /\ now' \in ClockTimes
    /\ win' = WindowObs(tw, now')
    /\ UNCHANGED <<tw, mgr, rb, pc, cyc, prev, torn>>

NextWindow == ReadClock

SpecWindow == InitWindow /\ [][NextWindow]_vars

(***************************************************************************)
(* SpecRebuild: one rebuild of one server, by rebuild_server of            *)
(* hetzner-monit-neo.py or by process_high_traffic_server of hetzner.py,   *)
(* over the servers and the provider scripts below.                        *)
(***************************************************************************)
MaxTape == 2

CreateAnswers ==
    {"201", "bad201", "ip_assigned", "error", "nojson", "noerrkey", "exc"}

RECURSIVE Tapes(_)
Tapes(n) ==
    IF n = 0 THEN {<<>>}
    ELSE LET shorter == Tapes(n - 1)
         IN  shorter \cup
             { Append(t, a) : t \in {u \in shorter : Len(u) = n - 1},
                              a \in CreateAnswers }

CreateTapes == Tapes(MaxTape) \ {<<>>}

WebServer ==
    [ id               |-> 1,
      name             |-> <<"web", 1>>,
      ipv4             |-> Some([id |-> 11, ip |-> 1]),
      image            |-> Some([type |-> "snapshot", id |-> 7]),
      outgoing_traffic |-> 90,
      included_traffic |-> 100 ]

RebuildServers ==
    { WebServer,
      [WebServer EXCEPT !.image = None],
      [WebServer EXCEPT !.image = Some([type |-> "system", id |-> 7])],
      [WebServer EXCEPT !.ipv4 = None],
      [WebServer EXCEPT !.ipv4 = Some([id |-> 0, ip |-> 1])] }

\* Existence polls: confirmed at once, at the second poll, at the last poll
\* of the budget, one poll too late, and later still.
GoneAfterCases ==
    {0, 1, DeletePolls - 1, DeletePolls, DeletePolls + 1}

DeleteScripts ==
    { [req |-> "err", gone_after |-> 0, exc_at |-> 0] } \cup
    { [req |-> "ok", gone_after |-> g, exc_at |-> e] :
          g \in GoneAfterCases, e \in {0, 2} }

FreeAfterCases ==
    {0, 1, IpRetries - 1, IpRetries, IpRetries + 1}

IpScripts ==
    { [free_after |-> f, exc_at |-> e] : f \in FreeAfterCases, e \in {0, 2} }

PollSecs == {5, 60}

NeoManagers ==
    { [ server_types |-> st, qb_loadbalancer_url |-> lb ] :
          st \in {<<116>>, <<116, 110>>, <<116, 110, 117>>}, lb \in BOOLEAN }

\* Longer scripts for create_server_with_types, which sends up to three
\* requests for each of up to three classes: two classes unavailable and the
\* third accepted; a class accepted at its third request; a class given up
\* after three requests; mixtures of these.
FallbackTapes ==
    { <<"error", "error", "201">>,
      <<"exc", "exc", "201">>,
      <<"exc", "exc", "exc", "201">>,
      <<"exc", "noerrkey", "exc", "error", "201">>,
      <<"exc", "exc", "exc", "exc", "exc", "exc", "201">>,
      <<"ip_assigned", "exc", "exc", "exc", "201">> }

RebuildEnv(d, tape, ip, secs) ==
    [ list_fail      |-> {},
      del            |-> [i \in {1} |-> d],
      create         |-> tape,
      ip             |-> ip,
      poll_secs      |-> secs,
      dl_list_fail   |-> FALSE,
      dl_modify_fail |-> {} ]

RebuildInput(variant, server, env, dry_run) ==
    [ stage   |-> "ready",
      variant |-> variant,
      server  |-> server,
      env     |-> env,
      dry_run |-> dry_run,
      ret     |-> Failure(server.name, "not_run"),
      calls   |-> <<>>,
      fleet   |-> <<server>> ]

InitRebuild ==
    /\ tw = Idle
    /\ now = 0
    /\ win = Idle
    /\ pc = "idle"
    /\ cyc = Idle
    /\ prev = Idle
    /\ torn = FALSE
    /\ \/ /\ mgr \in NeoManagers
          /\ \E server \in RebuildServers, d \in DeleteScripts,
                tape \in CreateTapes \cup FallbackTapes :
                rb = RebuildInput("neo", server,
                        RebuildEnv(d, tape, [free_after |-> 0, exc_at |-> 0], 5),
                        FALSE)
       \/ /\ mgr = Idle
          /\ \E server \in RebuildServers, d \in DeleteScripts,
                tape \in CreateTapes, ip \in IpScripts, secs \in PollSecs,
                dry_run \in BOOLEAN :
                /\ dry_run => (d.req = "err" /\ Len(tape) = 1
                                 /\ ip.free_after = 0 /\ secs = 5)
                /\ rb = RebuildInput("hz", server,
                                     RebuildEnv(d, tape, ip, secs), dry_run)

Done(r) ==
    [rb EXCEPT !.stage = "done", !.ret = r.ret,
               !.calls = r.w.calls, !.fleet = r.w.fleet]

RebuildNeo ==
    /\ rb.stage = "ready"
    /\ rb.variant = "neo"
    /\ rb' = Done(rebuild_server(World(<<rb.server>>, <<>>, rb.env), mgr, rb.server))
    /\ UNCHANGED <<tw, now, win, mgr, pc, cyc, prev, torn>>

RebuildHz ==
    /\ rb.stage = "ready"
    /\ rb.variant = "hz"
    /\ rb' = Done(hz_process_high_traffic_server(
                      World(<<rb.server>>, <<>>, rb.env), rb.server, rb.dry_run))
    /\ UNCHANGED <<tw, now, win, mgr, pc, cyc, prev, torn>>

NextRebuild == RebuildNeo \/ RebuildHz

SpecRebuild == InitRebuild /\ [][NextRebuild]_vars

(***************************************************************************)
(* SpecSched: run_monitor of hetzner-monit-neo.py with a time window.  A   *)
(* poll cycle reads the clock four times; the clock stands still or moves  *)
(* to the next sample between two readings.  The countdown between two     *)
(* cycles ends at any sample.  What the provider holds when the cycle      *)
(* starts, and how it answers, is drawn anew for every cycle.              *)
(***************************************************************************)
SchedWindows == { TimeWindowManager(8, 23, 30), TimeWindowManager(22, 8, 50) }

SchedManagers ==
    { [ time_window         |-> TRUE,
        telegram_notifier   |-> tn,
        downloader_api      |-> tn,
        qb_loadbalancer_url |-> FALSE,
        max_servers         |-> ms,
        initial_snapshot_id |-> sn,
        server_types        |-> <<116, 110>>,
        traffic_threshold   |-> 80 ] :
          tn \in BOOLEAN, ms \in {0, 2}, sn \in {None, Some(7)} }

IdleServer ==
    [ id               |-> 2,
      name             |-> <<"web", 2>>,
      ipv4             |-> Some([id |-> 12, ip |-> 2]),
      image            |-> Some([type |-> "snapshot", id |-> 7]),
      outgoing_traffic |-> 10,
      included_traffic |-> 100 ]

SchedFleets == { <<>>, <<WebServer>>, <<WebServer, IdleServer>> }

\* Two downloaders of the registry, one at WebServer's address, one at an
\* address no server holds.
SchedDownloaders ==
    << [ alias |-> <<"Hetzner", "a">>, clientUrl |-> <<Txt("http"), Ip(1)>> ],
       [ alias |-> <<"Hetzner", "b">>, clientUrl |-> <<Txt("http"), Ip(9)>> ] >>

DeleteOk == [req |-> "ok", gone_after |-> 1, exc_at |-> 0]
DeleteErr == [req |-> "err", gone_after |-> 0, exc_at |-> 0]

SchedEnv(lf, d, tape) ==
    [ list_fail      |-> lf,
      del            |-> [i \in {1, 2} |-> IF i = 1 THEN d ELSE DeleteOk],
      create         |-> tape,
      ip             |-> [free_after |-> 0, exc_at |-> 0],
      poll_secs      |-> 5,
      dl_list_fail   |-> FALSE,
      dl_modify_fail |-> {} ]

\* The provider answers every request, or fails one kind of request: the
\* first list, the delete of WebServer, every create.
SchedEnvs ==
    { SchedEnv({}, DeleteOk, <<"201">>),  SchedEnv({1}, DeleteOk, <<"201">>),
      SchedEnv({}, DeleteErr, <<"201">>), SchedEnv({}, DeleteOk, <<"error">>) }

\* The four readings of the clock of a cycle that starts at n.
CycleReads(n) ==
    { <<n, r2, r3, r4>> : r2 \in {n, NextTime(n)},
                          r3 \in {n, NextTime(n)}, r4 \in {n, NextTime(n)} }

ReadsInOrder(reads) ==
    \A i \in 1 .. 3 : reads[i + 1] \in {reads[i], NextTime(reads[i])}

\* The samples of the clock from a forward to b, both included.
ClockArc(a, b) ==
    IF a <= b
    THEN {m \in ClockTimes : a <= m /\ m <= b}
    ELSE {m \in ClockTimes : m >= a \/ m <= b}

\* History of the current in-window period: a bulk provisioning ran in it.
Made == [kind |-> "made"]

InitSched ==
    /\ tw \in SchedWindows
    /\ now \in ClockTimes
    /\ mgr \in SchedManagers
    /\ pc = "check"
    /\ cyc = Idle
    /\ prev = Idle
    /\ torn = FALSE
    /\ win = Idle
    /\ rb = Idle

\* One iteration of run_monitor's loop up to the countdown:
\* check_and_process_servers.
Cycle ==
    /\ pc = "check"
    /\ \E fleet \in SchedFleets, env \in SchedEnvs, reads \in CycleReads(now) :
          LET ran(r) ==
                  /\ tw' = r.tw
                  /\ now' = reads[4]
                  /\ cyc' = [ kind        |-> "cycle",
                              reads       |-> reads,
                              fleet       |-> fleet,
                              env         |-> env,
                              before      |-> tw,
                              after_reset |-> Get(r.w.after_reset),
                              torn        |-> torn,
                              made        |-> win = Made,
                              prev        |-> prev,
                              action      |-> r.action,
                              calls       |-> r.w.calls,
                              results     |-> r.results ]
                  /\ torn' = \/ r.action = "TEARDOWN"
                             \/ /\ torn
                                /\ \A i \in 1 .. 4 :
                                       ~is_in_work_window(tw, reads[i])
                  /\ prev' = IF r.action = "TEARDOWN"
                             THEN [kind |-> "teardown", last |-> reads[4]]
                             ELSE Idle
                  /\ win' = IF \/ /\ r.action = "PROVISION_INITIAL"
                                   /\ \A i \in 2 .. 4 :
                                          is_in_work_window(tw, reads[i])
                                \/ /\ win = Made
                                   /\ \A i \in 1 .. 4 :
                                          is_in_work_window(tw, reads[i])
                             THEN Made
                             ELSE Idle
          IN  /\ ReadsInOrder(reads)
              /\ ran(check_and_process_servers(
                         World(fleet, SchedDownloaders, env), mgr, tw, reads))
    /\ pc' = "countdown"
    /\ UNCHANGED <<mgr, rb>>

\* The countdown of run_monitor: interval seconds later the loop comes
\* round to the next cycle.
Countdown ==
    /\ pc = "countdown"
    /\ now' \in ClockTimes
    /\ pc' = "check"
    /\ cyc' = Idle
    /\ win' = IF /\ win = Made
                 /\ \A m \in ClockArc(now, now') : is_in_work_window(tw, m)
              THEN Made
              ELSE Idle
    /\ UNCHANGED <<tw, mgr, prev, torn, rb>>

NextSched == Cycle \/ Countdown

SpecSched == InitSched /\ [][NextSched]_vars

(***************************************************************************)
(* SpecPass: one monitoring pass of hetzner-monit-neo.py without a time    *)
(* window (ENABLE_TIME_WINDOW off: check_and_process_servers goes straight *)
(* to the monitoring pass), over fleets of up to MaxFleet servers.  The    *)
(* server at position i has id i, name web-i and address i, and is one of: *)
(*   "hot"     90 of 100 sent                                              *)
(*   "edge"    80 of 100 sent, exactly the threshold                       *)
(*   "cold"    79 of 100 sent                                              *)
(*   "zero"    5 sent of a quota of 0                                      *)
(*   "nosnap"  90 of 100 sent, and no snapshot image to rebuild from       *)
(***************************************************************************)
MaxFleet == 3

PassKinds == {"hot", "edge", "cold", "zero", "nosnap"}

PassServer(i, kind) ==
    [ id               |-> i,
      name             |-> <<"web", i>>,
      ipv4             |-> Some([id |-> 10 + i, ip |-> i]),
      image            |-> IF kind = "nosnap" THEN None
                           ELSE Some([type |-> "snapshot", id |-> 7]),
      outgoing_traffic |-> CASE kind = "edge" -> 80
                             [] kind = "cold" -> 79
                             [] kind = "zero" -> 5
                             [] OTHER -> 90,
      included_traffic |-> IF kind = "zero" THEN 0 ELSE 100 ]

PassFleets ==
    UNION { { [i \in 1 .. n |-> PassServer(i, kinds[i])] :
                kinds \in [1 .. n -> PassKinds] } : n \in 0 .. MaxFleet }

\* No 404 within the 24 polls of delete_server.
DeleteLate == [req |-> "ok", gone_after |-> DeletePolls, exc_at |-> 0]

\* Every delete is confirmed, but the one of server `bad`, which goes as d.
PassDeletes(bad, d) ==
    [i \in 1 .. MaxFleet |-> IF i = bad THEN d ELSE DeleteOk]

\* The provider's answers during a pass.  lf: the list requests that fail
\* (1: the pass's own, 2: the one before the synchronisation).
PassEnvs ==
    { [ list_fail      |-> lf,
        del            |-> d,
        create         |-> tape,
        ip             |-> [free_after |-> 0, exc_at |-> 0],
        poll_secs      |-> 5,
        dl_list_fail   |-> FALSE,
        dl_modify_fail |-> {} ] :
          lf \in {{}, {1}, {2}},
          d \in { PassDeletes(0, DeleteOk), PassDeletes(1, DeleteErr),
                  PassDeletes(1, DeleteLate), PassDeletes(2, DeleteErr) },
          tape \in { <<"201">>, <<"error">>, <<"error", "error", "201">> } }

PassManagers ==
    { [ time_window         |-> FALSE,
        telegram_notifier   |-> tn,
        downloader_api      |-> da,
        qb_loadbalancer_url |-> FALSE,
        max_servers         |-> ms,
        initial_snapshot_id |-> None,
        server_types        |-> <<116, 110>>,
        traffic_threshold   |-> 80 ] :
          tn \in BOOLEAN, da \in BOOLEAN, ms \in {0, 1, 2} }

PassInput(fleet, env) ==
    [ kind        |-> "pass",
      stage       |-> "ready",
      fleet       |-> fleet,
      env         |-> env,
      action      |-> "NONE",
      raised      |-> FALSE,
      calls       |-> <<>>,
      results     |-> <<>>,
      fleet_after |-> fleet,
      dl_after    |-> SchedDownloaders ]

InitPass ==
    /\ tw = Idle
    /\ now = 0
    /\ win = Idle
    /\ rb = Idle
    /\ pc = "idle"
    /\ prev = Idle
    /\ torn = FALSE
    /\ mgr \in PassManagers
    /\ \E fleet \in PassFleets, env \in PassEnvs : cyc = PassInput(fleet, env)

\* check_and_process_servers, once.
Scan ==
    /\ cyc.kind = "pass"
    /\ cyc.stage = "ready"
    /\ LET ran(r) ==
               cyc' = [cyc EXCEPT !.stage = "done",
                                  !.action = r.action,
                                  !.raised = r.raised,
                                  !.calls = r.w.calls,
                                  !.results = r.results,
                                  !.fleet_after = r.w.fleet,
                                  !.dl_after = r.w.dl]
       IN  ran(check_and_process_servers(
                   World(cyc.fleet, SchedDownloaders, cyc.env), mgr, tw,
                   <<now, now, now, now>>))
    /\ UNCHANGED <<tw, now, win, mgr, rb, pc, prev, torn>>

NextPass == Scan

SpecPass == InitPass /\ [][NextPass]_vars

(***************************************************************************)
(* SpecSync: DownloaderAPI.sync_downloaders_with_servers, run twice in a   *)
(* row with the same list of server addresses, the second time over the    *)
(* records the first run left in the registry.  The servers' addresses are *)
(* 1 .. n for an n up to MaxLive, without repetition (the provider gives   *)
(* every server its own address); the code only compares addresses for     *)
(* equality, so which server holds which address does not matter.  StaleIp *)
(* is an address no server holds.                                          *)
(* The registry holds up to MaxClients records, each with its own alias;   *)
(* the record at position i is one of:                                     *)
(*   <<"at", a>>    alias 'Hetzner <i>', clientUrl at address a            *)
(*   <<"noip">>     alias 'Hetzner <i>', clientUrl without an address      *)
(*   <<"foreign">>  alias 'qb <i>', clientUrl at address 1                 *)
(***************************************************************************)
MaxLive == 2
MaxClients == 4

StaleIp == 9

AliasTags == <<"a", "b", "c", "d", "e">>

LiveLists == { [i \in 1 .. n |-> i] : n \in 0 .. MaxLive }

ClientKinds ==
    {<<"noip">>, <<"foreign">>} \cup
    { <<"at", a>> : a \in (1 .. MaxLive) \cup {StaleIp} }

ClientRecord(i, kind) ==
    [ alias     |-> IF kind[1] = "foreign" THEN <<"qb", AliasTags[i]>>
                    ELSE <<"Hetzner", AliasTags[i]>>,
      clientUrl |-> CASE kind[1] = "noip" -> <<Txt("http")>>
                      [] kind[1] = "foreign" -> <<Txt("http"), Ip(1)>>
                      [] OTHER -> <<Txt("http"), Ip(kind[2])>> ]

ClientLists ==
    UNION { { [i \in 1 .. n |-> ClientRecord(i, kinds[i])] :
                kinds \in [1 .. n -> ClientKinds] } : n \in 0 .. MaxClients }

\* The registry answers every request, or fails the list request, or fails
\* the modify request of its first or of its second record.
SyncEnvs ==
    { [ list_fail      |-> {},
        del            |-> <<>>,
        create         |-> <<"201">>,
        ip             |-> [free_after |-> 0, exc_at |-> 0],
        poll_secs      |-> 5,
        dl_list_fail   |-> lf,
        dl_modify_fail |-> mf ] :
          lf \in BOOLEAN, mf \in {{}, {1}, {2}} }

SyncInput(server_ips, dl, env) ==
    [ kind       |-> "sync",
      server_ips |-> server_ips,
      dl         |-> dl,
      env        |-> env,
      runs       |-> <<>> ]

InitSync ==
    /\ tw = Idle
    /\ now = 0
    /\ win = Idle
    /\ mgr = Idle
    /\ rb = Idle
    /\ pc = "idle"
    /\ prev = Idle
    /\ torn = FALSE
    /\ \E server_ips \in LiveLists, dl \in ClientLists, env \in SyncEnvs :
          /\ env.dl_list_fail => env.dl_modify_fail = {}
          /\ cyc = SyncInput(server_ips, dl, env)

\* The registry's records before the next run.
SyncRecords ==
    IF Len(cyc.runs) = 0 THEN cyc.dl ELSE cyc.runs[Len(cyc.runs)].dl_after

\* sync_downloaders_with_servers(server_ips), the first and the second time.
Reconcile ==
    /\ cyc.kind = "sync"
    /\ Len(cyc.runs) < 2
    /\ LET ran(r) ==
               cyc' = [cyc EXCEPT !.runs =
                          Append(@, [ dl_before |-> SyncRecords,
                                      ret       |-> r.ret,
                                      plan      |-> r.plan,
                                      calls     |-> r.w.calls,
                                      dl_after  |-> r.w.dl ])]
       IN  ran(sync_downloaders_with_servers(
                   World(<<>>, SyncRecords, cyc.env), cyc.server_ips))
    /\ UNCHANGED <<tw, now, win, mgr, rb, pc, prev, torn>>

NextSync == Reconcile

SpecSync == InitSync /\ [][NextSync]_vars

(***************************************************************************)
(* SpecBulk: the two bulk operations of hetzner-monit-neo.py, each called  *)
(* once: create_initial_servers(count) for a count up to MaxCount, with    *)
(* one or two instance classes and scripts of create answers in which      *)
(* servers fail and succeed in turn; delete_all_servers_for_night over     *)
(* fleets of up to MaxFleet servers, each server's delete being confirmed, *)
(* rejected, never confirmed within the polls, or cut short by a poll that *)
(* raises.                                                                 *)
(***************************************************************************)
MaxCount == 3

BulkManagers ==
    { [ time_window         |-> FALSE,
        telegram_notifier   |-> FALSE,
        downloader_api      |-> FALSE,
        qb_loadbalancer_url |-> lb,
        max_servers         |-> 0,
        initial_snapshot_id |-> snap,
        server_types        |-> st,
        traffic_threshold   |-> 80 ] :
          lb \in BOOLEAN, snap \in {None, Some(7)},
          st \in {<<116>>, <<116, 110>>} }

\* Scripts of create answers (the last answer repeats).
BulkTapes ==
    { <<"201">>, <<"error">>, <<"exc">>,
      <<"error", "201", "error">>,
      <<"error", "error", "201">>,
      <<"201", "exc", "exc", "exc", "201">>,
      <<"exc", "201", "bad201", "201", "error">> }

BulkFleets ==
    { [i \in 1 .. n |-> PassServer(i, "cold")] : n \in 0 .. MaxFleet }

\* The first existence poll raises.
DeleteExc == [req |-> "ok", gone_after |-> 1, exc_at |-> 1]

BulkDeletes == [1 .. MaxFleet -> {DeleteOk, DeleteErr, DeleteLate, DeleteExc}]

BulkEnv(lf, d, tape) ==
    [ list_fail      |-> lf,
      del            |-> d,
      create         |-> tape,
      ip             |-> [free_after |-> 0, exc_at |-> 0],
      poll_secs      |-> 5,
      dl_list_fail   |-> FALSE,
      dl_modify_fail |-> {} ]

BulkInput(op, count, fleet, env) ==
    [ kind        |-> "bulk",
      op          |-> op,
      stage       |-> "ready",
      count       |-> count,
      fleet       |-> fleet,
      env         |-> env,
      ret         |-> <<>>,
      calls       |-> <<>>,
      fleet_after |-> fleet ]

InitBulk ==
    /\ tw = Idle
    /\ now = 0
    /\ win = Idle
    /\ rb = Idle
    /\ pc = "idle"
    /\ prev = Idle
    /\ torn = FALSE
    /\ \/ /\ mgr \in BulkManagers
          /\ \E count \in 0 .. MaxCount, tape \in BulkTapes :
                cyc = BulkInput("create", count, <<>>,
                                BulkEnv({}, <<>>, tape))
       \/ /\ mgr = Idle
          /\ \E fleet \in BulkFleets, d \in BulkDeletes, lf \in {{}, {1}} :
                cyc = BulkInput("delete", 0, fleet,
                                BulkEnv(lf, d, <<"201">>))

BulkDone(r) ==
    [cyc EXCEPT !.stage = "done", !.ret = r.ret, !.calls = r.w.calls,
                !.fleet_after = r.w.fleet]

\* create_initial_servers(count)
CreateInitial ==
    /\ cyc.kind = "bulk"
    /\ cyc.op = "create"
    /\ cyc.stage = "ready"
    /\ cyc' = BulkDone(create_initial_servers(
                           World(cyc.fleet, <<>>, cyc.env), mgr, cyc.count))
    /\ UNCHANGED <<tw, now, win, mgr, rb, pc, prev, torn>>

\* delete_all_servers_for_night()
DeleteAll ==
    /\ cyc.kind = "bulk"
    /\ cyc.op = "delete"
    /\ cyc.stage = "ready"
    /\ cyc' = BulkDone(delete_all_servers_for_night(
                           World(cyc.fleet, <<>>, cyc.env)))
    /\ UNCHANGED <<tw, now, win, mgr, rb, pc, prev, torn>>

NextBulk == CreateInitial \/ DeleteAll

SpecBulk == InitBulk /\ [][NextBulk]_vars

(***************************************************************************)
(* SpecDry: one call of check_and_process_servers(dry_run) of hetzner.py   *)
(* and of part_000, as a preview (dry_run true) and for real.              *)
(***************************************************************************)
DryKinds == PassKinds \cup {"noip"}

DryServer(i, kind) ==
    IF kind = "noip"
    THEN [PassServer(i, "hot") EXCEPT !.ipv4 = None]
    ELSE PassServer(i, kind)

DryFleets ==
    UNION { { [i \in 1 .. n |-> DryServer(i, kinds[i])] :
                kinds \in [1 .. n -> DryKinds] } : n \in 0 .. MaxFleet }

P0Requests ==
    {"snapshot", "poweroff", "unassign", "delete", "create", "rebuild"}

DryEnv(lf, d, tape, pf) ==
    [ list_fail      |-> lf,
      del            |-> d,
      create         |-> tape,
      ip             |-> [free_after |-> 0, exc_at |-> 0],
      poll_secs      |-> 5,
      dl_list_fail   |-> FALSE,
      dl_modify_fail |-> {},
      p0_fail        |-> pf,
      p0_answer      |-> "status" ]

\* hetzner.py: the list request fails or not, the delete of server 1 is
\* refused or not, the create requests are accepted or refused.
HzEnvs ==
    { DryEnv(lf, d, tape, "none") :
          lf \in {{}, {1}},
          d \in {PassDeletes(0, DeleteOk), PassDeletes(1, DeleteErr)},
          tape \in {<<"201">>, <<"error">>} }

\* part_000: the list request fails or not, and one of the six requests of
\* a rebuild fails, by its status or by its action.error, or none does.
P0Envs ==
    { [DryEnv(lf, PassDeletes(0, DeleteOk), <<"201">>, f[1])
          EXCEPT !.p0_answer = f[2]] :
          lf \in {{}, {1}},
          f \in {<<"none", "status">>}
                 \cup (P0Requests \X {"status", "action"}) }

DryManagers ==
    { [ variant           |-> v,
        telegram_notifier |-> tn,
        traffic_threshold |-> 80 ] : v \in {"hz", "p0"}, tn \in BOOLEAN }

DryInput(fleet, env, dry_run) ==
    [ kind        |-> "dry",
      stage       |-> "ready",
      dry_run     |-> dry_run,
      fleet       |-> fleet,
      env         |-> env,
      raised      |-> FALSE,
      calls       |-> <<>>,
      results     |-> <<>>,
      fleet_after |-> fleet ]

InitDry ==
    /\ tw = Idle
    /\ now = 0
    /\ win = Idle
    /\ rb = Idle
    /\ pc = "idle"
    /\ prev = Idle
    /\ torn = FALSE
    /\ mgr \in DryManagers
    /\ \E fleet \in DryFleets, dry_run \in BOOLEAN,
          env \in IF mgr.variant = "hz" THEN HzEnvs ELSE P0Envs :
          cyc = DryInput(fleet, env, dry_run)

DryDone(r) ==
    [cyc EXCEPT !.stage = "done",
                !.raised = r.raised,
                !.calls = r.w.calls,
                !.results = r.results,
                !.fleet_after = r.w.fleet]

\* check_and_process_servers(dry_run) of hetzner.py, once.
CheckHz ==
    /\ cyc.kind = "dry"
    /\ cyc.stage = "ready"
    /\ mgr.variant = "hz"
    /\ cyc' = DryDone(hz_check_and_process_servers(
                          World(cyc.fleet, <<>>, cyc.env), mgr, cyc.dry_run))
    /\ UNCHANGED <<tw, now, win, mgr, rb, pc, prev, torn>>

\* check_and_process_servers(dry_run) of part_000, once.
CheckP0 ==
    /\ cyc.kind = "dry"
    /\ cyc.stage = "ready"
    /\ mgr.variant = "p0"
    /\ cyc' = DryDone(p0_check_and_process_servers(
                          World(cyc.fleet, <<>>, cyc.env), mgr, cyc.dry_run))
    /\ UNCHANGED <<tw, now, win, mgr, rb, pc, prev, torn>>

NextDry == CheckHz \/ CheckP0

SpecDry == InitDry /\ [][NextDry]_vars

(***************************************************************************)
(* SpecLoop: run_monitor (hetzner-monit-neo.py, hetzner.py, part_000) and, *)
(* beside it, the status handlers of the Flask thread                      *)
(* (hetzner-monit-neo.py).  pc is the loop's position: "check" (about to   *)
(* call check_and_process_servers), "running" (inside that call, blocked   *)
(* at a request or a sleep), "countdown" (the interval's sleep),           *)
(* "cooldown" (the sleep of the except clause), "stopped" (the loop was    *)
(* left).  cyc is the cycle that runs or ran last, prev the loop's last    *)
(* step, rb the last response of a status handler.  A step of the cycle    *)
(* takes it from one blocking point to the next; the handlers and the      *)
(* interrupt come in between.                                              *)
(***************************************************************************)
CheckInterval == 1800
CooldownSecs == 60

\* A loop that gives up after a cycle that raised.
after_cycle_exit(raised) == IF raised THEN "stopped" ELSE "countdown"

\* run_monitor's try statement after check_and_process_servers: the
\* countdown when it returned, the except clause's sleep when it raised.
after_cycle(raised) == IF raised THEN "cooldown" ELSE "countdown"

\* server.get('status')
ServerStatus(server) ==
    IF "status" \in DOMAIN server THEN Some(server.status) ELSE None

\* HetznerServerManager.get_server_ips: the addresses of the listed servers
\* whose status is 'running'.
get_server_ips(w) ==
    LET listed(g) ==
            IF ~Truthy(g.ret)
            THEN [w |-> g.w, ret |-> <<>>]
            ELSE [w   |-> g.w,
                  ret |-> ServerIps(
                              SelectSeq(Get(g.ret),
                                  LAMBDA s : ServerStatus(s) = Some("running")))]
    IN  listed(get_servers(w))

\* A handler that deletes what it lists.
api_get_servers_status_purging(w, t) ==
    [w   |-> delete_all_servers_for_night(w).w,
     tw  |-> t,
     ret |-> [code |-> 200, count |-> 0]]

\* GET /api/servers/ips: manager_instance.get_server_ips().  t is the
\* manager's time window object.
api_get_server_ips(w, t) ==
    LET answered(g) ==
            [w   |-> g.w,
             tw  |-> t,
             ret |-> [code |-> 200, count |-> Len(g.ret)]]
    IN  answered(get_server_ips(w))

\* GET /api/servers/status: manager_instance.get_servers(), one entry for
\* each listed server.
api_get_servers_status(w, t) ==
    LET listed(g) ==
            [w   |-> g.w,
             tw  |-> t,
             ret |-> [code  |-> 200,
                      count |-> IF ~Truthy(g.ret) THEN 0 ELSE Len(Get(g.ret))]]
    IN  listed(get_servers(w))

\* What the provider holds when a cycle starts: nothing, a server over the
\* threshold, a server below the threshold before one of quota 0.
LoopFleets ==
    { <<>>,
      <<PassServer(1, "hot")>>,
      <<PassServer(1, "cold"), PassServer(2, "zero")>> }

\* The provider answers every request, or fails the first list request.
LoopEnvs ==
    { DryEnv(lf, PassDeletes(0, DeleteOk), <<"201">>, "none") :
          lf \in {{}, {1}} }

\* part_000's loop also meets a power-off whose answer carries an
\* action.error.
P0LoopEnvs ==
    LoopEnvs \cup
    { [DryEnv({}, PassDeletes(0, DeleteOk), <<"201">>, "poweroff")
          EXCEPT !.p0_answer = "action"] }

\* server with the status the provider reports for it.
WithStatus(server, status) ==
    [f \in DOMAIN server \cup {"status"} |->
        IF f = "status" THEN status ELSE server[f]]

\* What the provider lists to a handler: a server that was just created;
\* a running server and one switched off.
StatusFleets ==
    { <<WithStatus(WebServer, "initializing")>>,
      <<WithStatus(WebServer, "running"), WithStatus(IdleServer, "off")>> }

\* The provider answers a handler's list request, or fails it.
StatusEnvs(fleet) ==
    IF Len(fleet) = 2 THEN LoopEnvs
    ELSE {DryEnv({}, PassDeletes(0, DeleteOk), <<"201">>, "none")}

\* The times of day the loop is started at and wakes up at.
LoopTimes == { dt_time(7, 59), dt_time(12, 0), dt_time(23, 31) }

\* The four readings of the clock of a cycle that starts at n: the clock
\* stands still, or moves on after the first reading.
LoopReads(n) ==
    { <<n, n, n, n>>, <<n, NextTime(n), NextTime(n), NextTime(n)>> }

\* The answers to main()'s start message.
StartAnswers == {"ok", "err"}

LoopManager(variant, notifier) ==
    [ variant             |-> variant,
      time_window         |-> variant = "neo",
      telegram_notifier   |-> notifier,
      downloader_api      |-> FALSE,
      qb_loadbalancer_url |-> FALSE,
      max_servers         |-> 0,
      initial_snapshot_id |-> Some(7),
      server_types        |-> <<116, 110>>,
      traffic_threshold   |-> IF variant = "p0" THEN 85 ELSE 80 ]

Step(from, slept, cause, recovered) ==
    [ kind |-> "step", from |-> from, slept |-> slept, cause |-> cause,
      recovered |-> recovered ]

\* One of the three files has been started; its main() has not begun.
InitLoop ==
    /\ mgr \in {[kind |-> "program", variant |-> v] : v \in {"neo", "hz", "p0"}}
    /\ tw = Idle
    /\ now = 0
    /\ pc = "main"
    /\ cyc = Idle
    /\ prev = Idle
    /\ rb = Idle
    /\ win = Idle
    /\ torn = FALSE

\* check_and_process_servers of the manager's file on the cycle's inputs,
\* with the interrupt due at the point after the k-th.
RunCycle(m, c, k, sent) ==
    LET w == Until(World(c.fleet, c.dl, c.env), k, sent)
    IN  CASE m.variant = "neo" ->
                 check_and_process_servers(w, m, c.tw0, c.reads)
          [] m.variant = "hz" -> hz_check_and_process_servers(w, m, FALSE)
          [] OTHER -> p0_check_and_process_servers(w, m, FALSE)

\* The cycle inside check_and_process_servers, k points passed and blocked
\* at the next one (k = -1: the call has just been entered).
LoopRunning(c, k, r) ==
    [ kind      |-> "running",
      fleet     |-> c.fleet,
      dl        |-> c.dl,
      env       |-> c.env,
      tw0       |-> c.tw0,
      reads     |-> c.reads,
      passed    |-> k,
      calls     |-> r.w.calls,
      fleet_now |-> r.w.fleet ]

\* check_and_process_servers has been called and has come to none of its
\* requests or sleeps yet.
LoopEntered(c) ==
    [ kind      |-> "running",
      fleet     |-> c.fleet,
      dl        |-> c.dl,
      env       |-> c.env,
      tw0       |-> c.tw0,
      reads     |-> c.reads,
      passed    |-> -1,
      calls     |-> <<>>,
      fleet_now |-> c.fleet ]

\* The cycle after check_and_process_servers returned or raised.
LoopCycle(c, r) ==
    [ kind      |-> "cycle",
      fleet     |-> c.fleet,
      env       |-> c.env,
      raised    |-> r.raised,
      action    |-> r.action,
      calls     |-> r.w.calls,
      fleet_now |-> r.w.fleet ]

\* The cycle c goes on from its k-th point: to the next point, or to the
\* end of check_and_process_servers.
Advance(c, k) ==
    LET at(r) ==
            /\ tw' = r.tw
            /\ IF r.w.interrupted
               THEN /\ pc' = "running"
                    /\ cyc' = LoopRunning(c, k, r)
                    /\ now' = now
               ELSE /\ pc' = after_cycle(r.raised)
                    /\ cyc' = LoopCycle(c, r)
                    /\ now' = IF mgr.variant = "neo" THEN c.reads[4] ELSE now
    IN  at(RunCycle(mgr, c, k, FALSE))

\* The cycle followed the except clause's sleep.
AfterCooldown == prev.kind = "step" /\ prev.from = "cooldown"

\* send_message of part_000 with main()'s start message: True when the
\* request is answered 2xx, False when it fails in any way.
p0_send_message(w, answer) ==
    LET sent(p) == [w |-> p, ret |-> answer = "ok" /\ ~p.interrupted]
    IN  sent(Log(w, "notify", 0, [kind |-> "start", answer |-> answer]))

\* main() of hetzner-monit-neo.py with the API key set, the time window and
\* the status API enabled and no downloader: the notifier is there when
\* token and chat id are configured; manager_instance is assigned and the
\* status thread is started; main() is then in time.sleep(1).
MainNeo ==
    /\ pc = "main"
    /\ mgr.variant = "neo"
    /\ "telegram_notifier" \notin DOMAIN mgr
    /\ \E notifier \in BOOLEAN : mgr' = LoopManager("neo", notifier)
    /\ tw' = TimeWindowManager(8, 23, 30)
    /\ now' \in LoopTimes
    /\ UNCHANGED <<pc, prev, cyc, rb, win, torn>>

\* main() of hetzner-monit-neo.py after the status thread was started:
\* time.sleep(1) is over and run_monitor is called.
MainNeoMonitor ==
    /\ pc = "main"
    /\ mgr.variant = "neo"
    /\ "telegram_notifier" \in DOMAIN mgr
    /\ pc' = "check"
    /\ prev' = Step("main", 1, "run_monitor", FALSE)
    /\ UNCHANGED <<tw, now, mgr, cyc, rb, win, torn>>

\* main() of hetzner.py with choice "2": the notifier is there when token
\* and chat id are configured; then run_monitor.
MainHz ==
    /\ pc = "main"
    /\ mgr.variant = "hz"
    /\ \E notifier \in BOOLEAN : mgr' = LoopManager("hz", notifier)
    /\ pc' = "check"
    /\ prev' = Step("main", 0, "run_monitor", FALSE)
    /\ UNCHANGED <<tw, now, cyc, rb, win, torn>>

\* main() of part_000 with choice "2": the start message is sent, and the
\* manager gets the notifier only when that succeeded; then run_monitor.
MainP0 ==
    /\ pc = "main"
    /\ mgr.variant = "p0"
    /\ \E answer \in StartAnswers :
          LET started(r) ==
                  /\ mgr' = LoopManager("p0", r.ret)
                  /\ cyc' = [kind |-> "main", calls |-> r.w.calls]
          IN  started(p0_send_message(World(<<>>, <<>>, Idle), answer))
    /\ pc' = "check"
    /\ prev' = Step("main", 0, "run_monitor", FALSE)
    /\ UNCHANGED <<tw, now, rb, win, torn>>

\* hetzner-monit-neo.py's loop calls check_and_process_servers.
LoopCheckNeo ==
    /\ pc = "check"
    /\ mgr.variant = "neo"
    /\ \E fleet \in LoopFleets, env \in LoopEnvs, reads \in LoopReads(now) :
          /\ ReadsInOrder(reads)
          /\ cyc' = LoopEntered([ fleet |-> fleet, dl |-> SchedDownloaders,
                                  env |-> env, tw0 |-> tw, reads |-> reads ])
    /\ pc' = "running"
    /\ prev' = Step("check", 0, "cycle", AfterCooldown)
    /\ UNCHANGED <<tw, now, mgr, rb, win, torn>>

\* hetzner.py's loop calls check_and_process_servers(dry_run=False).
LoopCheckHz ==
    /\ pc = "check"
    /\ mgr.variant = "hz"
    /\ \E fleet \in LoopFleets, env \in LoopEnvs :
          cyc' = LoopEntered([ fleet |-> fleet, dl |-> <<>>, env |-> env,
                               tw0 |-> tw, reads |-> <<>> ])
    /\ pc' = "running"
    /\ prev' = Step("check", 0, "cycle", AfterCooldown)
    /\ UNCHANGED <<tw, now, mgr, rb, win, torn>>

\* part_000's loop calls check_and_process_servers().
LoopCheckP0 ==
    /\ pc = "check"
    /\ mgr.variant = "p0"
    /\ \E fleet \in LoopFleets, env \in P0LoopEnvs :
          cyc' = LoopEntered([ fleet |-> fleet, dl |-> <<>>, env |-> env,
                               tw0 |-> tw, reads |-> <<>> ])
    /\ pc' = "running"
    /\ prev' = Step("check", 0, "cycle", AfterCooldown)
    /\ UNCHANGED <<tw, now, mgr, rb, win, torn>>

\* The call has been entered, the request is answered or the sleep is over:
\* the cycle runs on to its next request or sleep, or to its end.
LoopProceed ==
    /\ pc = "running"
    /\ Advance(cyc, cyc.passed + 1)
    /\ UNCHANGED <<mgr, prev, rb, win, torn>>

\* The countdown (interval sleeps of one second; in part_000 one sleep of
\* the interval), then the next iteration.
LoopCountdown ==
    /\ pc = "countdown"
    /\ pc' = "check"
    /\ now' \in IF mgr.variant = "neo" THEN LoopTimes ELSE {now}
    /\ cyc' = Idle
    /\ prev' = Step("countdown", CheckInterval, "slept", FALSE)
    /\ UNCHANGED <<tw, mgr, rb, win, torn>>

\* The except clause: the error is logged, time.sleep(60), then the next
\* iteration.
LoopCooldown ==
    /\ pc = "cooldown"
    /\ pc' = "check"
    /\ now' \in IF mgr.variant = "neo" THEN {now, NextTime(now)} ELSE {now}
    /\ cyc' = Idle
    /\ prev' = Step("cooldown", CooldownSecs, "slept", FALSE)
    /\ UNCHANGED <<tw, mgr, rb, win, torn>>

\* The cycle c, cut short at the point after the k-th.
LoopCut(c, k, r) == [LoopRunning(c, k, r) EXCEPT !.kind = "cut"]

\* KeyboardInterrupt: caught inside the try (break), or raised out of the
\* except clause's sleep; either way the loop is left.  Inside
\* check_and_process_servers it cuts the cycle short where it is: at a
\* request, before the request has left or after the provider has handled
\* it.  In main() it ends the process before the loop is entered: in
\* part_000 at the start message, before it has left or after Telegram has
\* handled it, whatever the answer (awaited still, or given and main() at
\* its input() prompt).
Interrupt ==
    /\ pc \in {"main", "check", "running", "countdown", "cooldown"}
    /\ pc' = "stopped"
    /\ prev' = Step(pc, 0, "KeyboardInterrupt", FALSE)
    /\ IF pc = "running" /\ cyc.passed >= 0
       THEN LET cut(r) == cyc' = LoopCut(cyc, cyc.passed, r)
            IN  \E sent \in BOOLEAN :
                    cut(RunCycle(mgr, cyc, cyc.passed, sent))
       ELSE IF pc = "main" /\ mgr.variant = "p0"
       THEN LET cut(r) == cyc' = [kind |-> "cut", calls |-> r.w.calls]
            IN  \E sent \in BOOLEAN :
                  \E answer \in StartAnswers :
                    cut(p0_send_message(
                            Until(World(<<>>, <<>>, Idle), 0, sent), answer))
       ELSE cyc' = IF pc = "running" THEN [cyc EXCEPT !.kind = "cut"] ELSE cyc
    /\ UNCHANGED <<tw, now, mgr, rb, win, torn>>

ApiResponse(route, fleet, r) ==
    [ kind  |-> "api",
      route |-> route,
      fleet |-> fleet,
      code  |-> r.ret.code,
      count |-> r.ret.count,
      calls |-> r.w.calls ]

\* A request to /api/servers/ips, served by the Flask thread from the
\* moment main() has started it, wherever the main thread is.
StatusIps ==
    /\ pc # "stopped"
    /\ mgr.variant = "neo"
    /\ "telegram_notifier" \in DOMAIN mgr
    /\ \E fleet \in StatusFleets : \E env \in StatusEnvs(fleet) :
          LET served(r) ==
                  /\ tw' = r.tw
                  /\ rb' = ApiResponse("ips", fleet, r)
          IN  served(api_get_server_ips(World(fleet, <<>>, env), tw))
    /\ UNCHANGED <<now, mgr, pc, cyc, prev, win, torn>>

\* A request to /api/servers/status.
StatusServers ==
    /\ pc # "stopped"
    /\ mgr.variant = "neo"
    /\ "telegram_notifier" \in DOMAIN mgr
    /\ \E fleet \in StatusFleets : \E env \in StatusEnvs(fleet) :
          LET served(r) ==
                  /\ tw' = r.tw
                  /\ rb' = ApiResponse("status", fleet, r)
          IN  served(api_get_servers_status(World(fleet, <<>>, env), tw))
    /\ UNCHANGED <<now, mgr, pc, cyc, prev, win, torn>>

NextLoop ==
    \/ MainNeo
    \/ MainNeoMonitor
    \/ MainHz
    \/ MainP0
    \/ LoopCheckNeo
    \/ LoopCheckHz
    \/ LoopCheckP0
    \/ LoopProceed
    \/ LoopCountdown
    \/ LoopCooldown
    \/ Interrupt
    \/ StatusIps
    \/ StatusServers

SpecLoop == InitLoop /\ [][NextLoop]_vars

Calls(op) == {i \in DOMAIN rb.calls : rb.calls[i].op = op}
CallsSt(op, st) == {i \in Calls(op) : rb.calls[i].st = st}

(***************************************************************************)
(* The poll cycle's claims.  Within(t, n) is membership of the window as   *)
(* the specification words it; a cycle is evaluated outside (inside) the   *)
(* window when every reading of the clock it made is outside (inside).     *)
(***************************************************************************)
Within(t, n) ==
    IF t.start_time > t.end_time
    THEN n >= t.start_time \/ n <= t.end_time
    ELSE t.start_time <= n /\ n <= t.end_time

CycleRan == cyc.kind = "cycle"
ReadsOutside == \A i \in 1 .. 4 : ~Within(cyc.before, cyc.reads[i])
ReadsInside == \A i \in 1 .. 4 : Within(cyc.before, cyc.reads[i])
ReadsAt(n) == \A i \in 1 .. 4 : cyc.reads[i] = n
CycleCalls(op) == {i \in DOMAIN cyc.calls : cyc.calls[i].op = op}

\* C1: a cycle evaluated outside the window with servers_deleted false
\* performs the bulk teardown and leaves servers_deleted true and
\* servers_created false, for every window configuration.
C1_TeardownWheneverOutside ==
    (CycleRan /\ ReadsOutside /\ ~cyc.before.servers_deleted) =>
        /\ cyc.action = "TEARDOWN"
        /\ tw.servers_deleted
        /\ ~tw.servers_created

\* The window 08:00-23:30 at 07:00 with servers_deleted false: nothing is
\* torn down.
C1_Witness ==
    /\ CycleRan
    /\ cyc.before.start_time = dt_time(8, 0)
    /\ cyc.before.end_time = dt_time(23, 30)
    /\ ReadsAt(dt_time(7, 0))
    /\ ~cyc.before.servers_deleted
    /\ cyc.fleet # <<>>
    /\ cyc.action = "NONE"
    /\ ~tw.servers_deleted

\* C3: once a teardown cycle has completed and no reading of the clock since
\* was inside the window, a cycle evaluated outside the window is a NONE
\* cycle: it sends no request to the provider, the registry or the notifier,
\* and it leaves both flags as they were.
C3_QuietAfterTeardown ==
    (CycleRan /\ cyc.torn /\ ReadsOutside) =>
        /\ cyc.action = "NONE"
        /\ cyc.calls = <<>>
        /\ tw = cyc.before

C3_Witness ==
    /\ CycleRan
    /\ cyc.torn
    /\ ReadsOutside
    /\ cyc.fleet # <<>>
    /\ cyc.action = "NONE"
    /\ cyc.before.servers_deleted

\* C4: with the window 22:00-08:50, a cycle evaluated at 09:00 with
\* servers_deleted false performs TEARDOWN, and the cycle that follows it,
\* evaluated at 10:00, is NONE.
C4_WrappingWindowMorning ==
    (CycleRan /\ cyc.before.start_time = dt_time(22, 0)
              /\ cyc.before.end_time = dt_time(8, 50)) =>
        /\ (ReadsAt(dt_time(9, 0)) /\ ~cyc.before.servers_deleted)
               => cyc.action = "TEARDOWN"
        /\ (cyc.prev.kind = "teardown" /\ cyc.prev.last = dt_time(9, 0)
              /\ ReadsAt(dt_time(10, 0)))
               => cyc.action = "NONE"

C4_Witness ==
    /\ CycleRan
    /\ cyc.before.start_time = dt_time(22, 0)
    /\ cyc.before.end_time = dt_time(8, 50)
    /\ cyc.prev.kind = "teardown"
    /\ cyc.prev.last = dt_time(9, 0)
    /\ ReadsAt(dt_time(10, 0))
    /\ cyc.fleet # <<>>
    /\ cyc.action = "NONE"

\* C5: the reset step of a cycle clears both flags when its reading of the
\* clock is inside the window and servers_deleted is true; when the reading
\* is outside the window, or servers_deleted is false, it changes neither.
C5_ResetStep ==
    CycleRan =>
        IF Within(cyc.before, cyc.reads[1]) /\ cyc.before.servers_deleted
        THEN /\ ~cyc.after_reset.servers_deleted
             /\ ~cyc.after_reset.servers_created
        ELSE cyc.after_reset = cyc.before

C5_Witness ==
    /\ CycleRan
    /\ Within(cyc.before, cyc.reads[1])
    /\ cyc.before.servers_deleted
    /\ ~cyc.after_reset.servers_deleted
    /\ ~cyc.after_reset.servers_created
    /\ cyc.action = "PROVISION_INITIAL"

\* C6: a cycle evaluated inside the window with servers_created false, when
\* the provider holds no server, runs the bulk provisioning of max_servers
\* servers (3 when max_servers is 0), leaves servers_created true and does
\* not run the monitoring pass: no server is deleted and no check report is
\* sent.
C6_InitialProvisioning ==
    (CycleRan /\ ReadsInside /\ ~cyc.before.servers_created
              /\ cyc.fleet = <<>>) =>
        LET target == IF mgr.max_servers = 0 THEN 3 ELSE mgr.max_servers
        IN  /\ cyc.action = "PROVISION_INITIAL"
            /\ tw.servers_created
            /\ ~IsNone(mgr.initial_snapshot_id) =>
                   /\ Len(cyc.results) = target
                   /\ \A i \in 1 .. target : cyc.results[i].name = InitialName(i)
                   /\ Cardinality(CycleCalls("create")) >= target
            /\ CycleCalls("delete") = {}
            /\ \A i \in CycleCalls("notify") : cyc.calls[i].st.kind = "initial"

C6_Witness ==
    /\ CycleRan
    /\ ReadsInside
    /\ ~cyc.before.servers_created
    /\ cyc.fleet = <<>>
    /\ mgr.max_servers = 0
    /\ Len(cyc.results) = 3
    /\ \A i \in 1 .. 3 : cyc.results[i].success
    /\ tw.servers_created

\* C7: a cycle evaluated inside the window with servers_created true runs
\* the monitoring pass (PROCEED), hence neither bulk provisioning nor bulk
\* teardown, and changes neither flag.
C7_ProceedOnceCreated ==
    (CycleRan /\ ReadsInside /\ cyc.before.servers_created) =>
        /\ cyc.action = "PROCEED"
        /\ tw = cyc.before

\* Both flags are true after a teardown whose next cycle read the clock
\* before the window opened and again after; the cycle after that one, inside
\* the window with servers_created true, provisions anew.
C7_Witness ==
    /\ CycleRan
    /\ ReadsInside
    /\ cyc.before.servers_created
    /\ cyc.before.servers_deleted
    /\ cyc.action = "PROVISION_INITIAL"
    /\ Len(cyc.results) > 0

\* C8: a create request follows a successful delete request and a later
\* existence poll that answered 404; a delete that failed or was not
\* confirmed makes the rebuild a failure without any create request.
C8_CreateOnlyAfterConfirmedDelete ==
    rb.stage = "done" =>
        /\ \A c \in Calls("create") :
              \E d \in CallsSt("delete", "ok"), p \in CallsSt("poll", "404") :
                  d < p /\ p < c
        /\ (Calls("delete") # {} /\ CallsSt("poll", "404") = {}) =>
              (~rb.ret.success /\ Calls("create") = {})

\* A rebuild whose delete is confirmed by the last poll of the budget and
\* which then sends a create request.
C8_Witness ==
    /\ rb.stage = "done"
    /\ rb.variant = "neo"
    /\ Cardinality(Calls("poll")) = DeletePolls
    /\ Calls("create") # {}
    /\ rb.ret.success

\* C9: a rebuild of a server without a snapshot image (hetzner.py: or
\* without a primary address id) fails at once and sends no request.
C9_MissingPrerequisite ==
    (/\ rb.stage = "done"
     /\ \/ Falsy(SnapshotId(rb.server))
        \/ rb.variant = "hz" /\ Falsy(get_server_ipv4_id(rb.server)))
    => (~rb.ret.success /\ rb.calls = <<>>)

\* rebuild_server on a server whose image is not a snapshot, under a script
\* that would have confirmed the delete and accepted the create.
C9_Witness ==
    /\ rb.stage = "done"
    /\ rb.variant = "neo"
    /\ ~IsNone(rb.server.image)
    /\ Falsy(SnapshotId(rb.server))
    /\ rb.env.del[1].req = "ok"
    /\ rb.env.del[1].gone_after = 0
    /\ rb.env.create = <<"201">>
    /\ ~rb.ret.success

\* C10: hetzner.py polls the primary address at most 12 times, all after
\* the delete; a create request follows a poll that found no assignee; when
\* no poll finds that after a confirmed delete, the rebuild fails without a
\* create request.
C10_CreateOnlyAfterAddressReleased ==
    (rb.stage = "done" /\ rb.variant = "hz") =>
        /\ Cardinality(Calls("ip_poll")) <= IpRetries
        /\ \A q \in Calls("ip_poll") :
              \E d \in CallsSt("delete", "ok") : d < q
        /\ \A c \in Calls("create") :
              \E q \in CallsSt("ip_poll", "free") : q < c
        /\ (CallsSt("poll", "404") # {} /\ CallsSt("ip_poll", "free") = {}) =>
              (~rb.ret.success /\ Calls("create") = {})

\* The address is still assigned at each of the 12 polls that follow a
\* confirmed delete.
C10_Witness ==
    /\ rb.stage = "done"
    /\ rb.variant = "hz"
    /\ CallsSt("poll", "404") # {}
    /\ Cardinality(CallsSt("ip_poll", "assigned")) = IpRetries
    /\ Calls("create") = {}
    /\ ~rb.ret.success

\* C2: is_in_work_window(now) is start_time <= now <= end_time when
\* start_time <= end_time, and now >= start_time or now <= end_time when
\* start_time > end_time; both endpoints belong to the window.
C2_Membership ==
    win.kind = "read" =>
    /\ tw.start_time <= tw.end_time =>
          (win.in_window <=> (tw.start_time <= now /\ now <= tw.end_time))
    /\ tw.start_time > tw.end_time =>
          (win.in_window <=> (now >= tw.start_time \/ now <= tw.end_time))
    /\ (tw.start_time = dt_time(8, 0) /\ tw.end_time = dt_time(23, 30)
          /\ now \in {dt_time(8, 0), dt_time(23, 30)}) => win.in_window
    /\ (tw.start_time = dt_time(22, 0) /\ tw.end_time = dt_time(8, 50)
          /\ now \in {dt_time(23, 59), dt_time(0, 1)}) => win.in_window
    /\ (tw.start_time = dt_time(22, 0) /\ tw.end_time = dt_time(8, 50)
          /\ now = dt_time(9, 0)) => ~win.in_window

\* The wrapping window 22:00-08:50 read at its end point 08:50.
C2_Witness ==
    /\ win.kind = "read"
    /\ tw.start_time = dt_time(22, 0)
    /\ tw.end_time = dt_time(8, 50)
    /\ now = dt_time(8, 50)
    /\ win.in_window

(***************************************************************************)
(* The create-with-fallback claims, over the create requests of a rebuild  *)
(* in the order they were sent.  Classes is the priority list: the         *)
(* configured server_types, or hetzner.py's single class.                  *)
(***************************************************************************)
CreateSeq == SelectSeq(rb.calls, LAMBDA c : c.op = "create")

Classes == IF rb.variant = "neo" THEN mgr.server_types ELSE <<HzServerType>>

\* The position of a class in the priority list.
ClassIndex(class) == CHOOSE i \in DOMAIN Classes : Classes[i] = class

\* The requests for the class of request k, up to and including request k.
AttemptNo(k) ==
    Cardinality({j \in 1 .. k : CreateSeq[j].target = CreateSeq[k].target})

\* C11: a create request answered "address still assigned" that is not the
\* last request its class is allowed is followed by another request for the
\* same class.
C11_AddressAssignedRetriesSameClass ==
    rb.stage = "done" =>
        \A k \in DOMAIN CreateSeq :
            (CreateSeq[k].st = "ip_assigned" /\ AttemptNo(k) < CreateAttempts) =>
                /\ k + 1 \in DOMAIN CreateSeq
                /\ CreateSeq[k + 1].target = CreateSeq[k].target

\* rebuild_server with the classes 116, 110: the first request, for 116, is
\* answered "address still assigned" and the second request is for 110.
C11_Witness ==
    /\ rb.stage = "done"
    /\ rb.variant = "neo"
    /\ mgr.server_types = <<116, 110>>
    /\ rb.env.create = <<"ip_assigned", "201">>
    /\ Len(CreateSeq) = 2
    /\ CreateSeq[1].target = 116
    /\ CreateSeq[1].st = "ip_assigned"
    /\ CreateSeq[2].target = 110
    /\ rb.ret.success
    /\ rb.ret.server_type = 110

\* C12: a create request answered with a provider error other than "address
\* still assigned" is the last request for its class, and when a class
\* follows in the priority list the next request is for that class.
C12_OtherErrorEndsClass ==
    rb.stage = "done" =>
        \A k \in DOMAIN CreateSeq :
            CreateSeq[k].st = "error" =>
                /\ \A j \in DOMAIN CreateSeq :
                       j > k => CreateSeq[j].target # CreateSeq[k].target
                /\ ClassIndex(CreateSeq[k].target) < Len(Classes) =>
                       /\ k + 1 \in DOMAIN CreateSeq
                       /\ CreateSeq[k + 1].target =
                              Classes[ClassIndex(CreateSeq[k].target) + 1]

\* hetzner.py: the first request is answered with a provider error that is
\* not "address still assigned", and a second request for the same class
\* follows.
C12_Witness ==
    /\ rb.stage = "done"
    /\ rb.variant = "hz"
    /\ rb.env.create = <<"error", "201">>
    /\ Len(CreateSeq) = 2
    /\ CreateSeq[1].st = "error"
    /\ CreateSeq[2].target = CreateSeq[1].target
    /\ rb.ret.success

\* C13: create_server_with_types sends its requests class by class in
\* priority order, starting with the first class and never going back, at
\* most three for a class; the rebuild succeeds with the class of the first
\* accepted request, which is the last request sent; it fails for lack of a
\* class only after every class has been sent a request and none was
\* accepted.
C13_FallbackOrder ==
    (rb.stage = "done" /\ rb.variant = "neo") =>
        /\ \A k \in DOMAIN CreateSeq :
              /\ CreateSeq[k].target \in {Classes[i] : i \in DOMAIN Classes}
              /\ AttemptNo(k) <= CreateAttempts
              /\ k = 1 => CreateSeq[k].target = Classes[1]
              /\ k > 1 =>
                    LET before == ClassIndex(CreateSeq[k - 1].target)
                        here == ClassIndex(CreateSeq[k].target)
                    IN  here = before \/ here = before + 1
        /\ rb.ret.success =>
              /\ Len(CreateSeq) > 0
              /\ CreateSeq[Len(CreateSeq)].st = "201"
              /\ \A k \in 1 .. (Len(CreateSeq) - 1) : CreateSeq[k].st # "201"
              /\ rb.ret.server_type = CreateSeq[Len(CreateSeq)].target
        /\ (~rb.ret.success /\ rb.ret.error = "create_failed") =>
              /\ \A i \in DOMAIN Classes :
                    \E k \in DOMAIN CreateSeq : CreateSeq[k].target = Classes[i]
              /\ \A k \in DOMAIN CreateSeq : CreateSeq[k].st # "201"

\* The classes 116, 110, 117: the requests for 116 and 110 are answered
\* "unavailable", the request for 117 is accepted.
C13_Witness ==
    /\ rb.stage = "done"
    /\ rb.variant = "neo"
    /\ mgr.server_types = <<116, 110, 117>>
    /\ rb.env.create = <<"error", "error", "201">>
    /\ Len(CreateSeq) = 3
    /\ CreateSeq[1].target = 116
    /\ CreateSeq[2].target = 110
    /\ CreateSeq[3].target = 117
    /\ rb.ret.success
    /\ rb.ret.server_type = 117

\* C14: web-1 (90 of 100 sent, threshold 80 percent) is due for a rebuild;
\* when the delete is confirmed, the address is released, and the first
\* create request is answered "address still assigned" and the second is
\* accepted, the rebuild succeeds with class 116, the first of the classes
\* 116, 110, and with the old address as the new address.
C14_EndToEnd ==
    (/\ rb.stage = "done"
     /\ rb.server = WebServer
     /\ rb.variant = "neo" => mgr.server_types = <<116, 110>>
     /\ ~rb.dry_run
     /\ rb.env.del[1].req = "ok"
     /\ rb.env.del[1].exc_at = 0
     /\ rb.env.del[1].gone_after = 1
     /\ rb.env.ip = [free_after |-> 1, exc_at |-> 0]
        \/ rb.variant = "neo"
     /\ rb.env.poll_secs = 5
     /\ rb.env.create = <<"ip_assigned", "201">>)
    => /\ UsageReaches(rb.server, 80)
       /\ rb.ret.success
       /\ Len(CreateSeq) = 2
       /\ CreateSeq[2].target = 116
       /\ rb.ret.new_ip = Get(rb.server.ipv4).ip

\* rebuild_server in that scenario: the rebuild succeeds with class 110 and
\* an address that is not the old one.
C14_Witness ==
    /\ rb.stage = "done"
    /\ rb.variant = "neo"
    /\ rb.server = WebServer
    /\ mgr.server_types = <<116, 110>>
    /\ rb.env.del[1] = [req |-> "ok", gone_after |-> 1, exc_at |-> 0]
    /\ rb.env.create = <<"ip_assigned", "201">>
    /\ rb.ret.success
    /\ rb.ret.server_type = 110
    /\ rb.ret.new_ip # Get(rb.server.ipv4).ip

(***************************************************************************)
(* The monitoring pass's claims.  An instance is due for a rebuild when    *)
(* its usage ratio reaches the threshold; the ratio of an instance with a  *)
(* quota of 0 counts as 0, as the specification has it.                    *)
(***************************************************************************)
PassDone == cyc.kind = "pass" /\ cyc.stage = "done"

\* The pass fetched a list with at least one instance.
Listed == PassDone /\ cyc.fleet # <<>> /\ 1 \notin cyc.env.list_fail

Due(server) ==
    /\ server.included_traffic > 0
    /\ server.outgoing_traffic * 100
           >= mgr.traffic_threshold * server.included_traffic

DueSeq == SelectSeq(cyc.fleet, Due)

RebuildFailures == {"no_snapshot", "delete_failed", "create_failed"}

FailedRebuilds ==
    {k \in DOMAIN cyc.results :
        ~cyc.results[k].success /\ cyc.results[k].error \in RebuildFailures}

\* The instances a report lists as evaluated cover the fetched list.
ReportsWholeFleet(i) ==
    /\ Len(cyc.calls[i].st.servers_info) = Len(cyc.fleet)
    /\ \A k \in DOMAIN cyc.fleet :
           cyc.calls[i].st.servers_info[k].name = cyc.fleet[k].name

\* C15: a pass in which a rebuild failed is not stopped: it ends without an
\* exception, every instance that is due has its outcome, in the order of
\* the list, and with a notifier one report is sent, which lists every
\* instance of the fetched list as evaluated.
C15_FailedRebuildNeverStopsPass ==
    (Listed /\ FailedRebuilds # {}) =>
        /\ ~cyc.raised
        /\ Len(cyc.results) = Len(DueSeq)
        /\ \A k \in DOMAIN cyc.results : cyc.results[k].name = DueSeq[k].name
        /\ mgr.telegram_notifier =>
              /\ Cardinality(CycleCalls("notify")) = 1
              /\ \A i \in CycleCalls("notify") : ReportsWholeFleet(i)

\* web-1 has no snapshot and its rebuild fails; web-2 has a quota of 0; web-3
\* is due.  The pass ends with an exception at web-2: web-3 has no outcome
\* and no report is sent.
C15_Witness ==
    /\ PassDone
    /\ mgr.telegram_notifier
    /\ Len(cyc.fleet) = 3
    /\ cyc.fleet[1] = PassServer(1, "nosnap")
    /\ cyc.fleet[2] = PassServer(2, "zero")
    /\ cyc.fleet[3] = PassServer(3, "hot")
    /\ cyc.results = <<Failure(<<"web", 1>>, "no_snapshot")>>
    /\ cyc.raised
    /\ CycleCalls("notify") = {}
    /\ CycleCalls("delete") = {}

ZeroQuota == {k \in DOMAIN cyc.fleet : cyc.fleet[k].included_traffic = 0}

\* C16: an instance with a quota of 0 counts as usage ratio 0: the pass
\* does not rebuild it (no outcome, no delete request for it), ends without
\* an exception, gives every instance that is due its outcome, and with a
\* notifier sends its report, which lists every instance as evaluated.
C16_ZeroQuotaIsRatioZero ==
    (Listed /\ ZeroQuota # {}) =>
        /\ ~cyc.raised
        /\ \A k \in ZeroQuota :
              /\ \A j \in DOMAIN cyc.results :
                     cyc.results[j].name # cyc.fleet[k].name
              /\ \A i \in CycleCalls("delete") :
                     cyc.calls[i].target # cyc.fleet[k].id
        /\ Len(cyc.results) = Len(DueSeq)
        /\ \A j \in DOMAIN cyc.results : cyc.results[j].name = DueSeq[j].name
        /\ mgr.telegram_notifier =>
              /\ Cardinality(CycleCalls("notify")) = 1
              /\ \A i \in CycleCalls("notify") : ReportsWholeFleet(i)

\* web-1 is below the threshold, web-2 has a quota of 0, web-3 is due: the
\* pass ends with an exception at web-2, having sent the list request only.
C16_Witness ==
    /\ PassDone
    /\ mgr.telegram_notifier
    /\ Len(cyc.fleet) = 3
    /\ cyc.fleet[1] = PassServer(1, "cold")
    /\ cyc.fleet[2] = PassServer(2, "zero")
    /\ cyc.fleet[3] = PassServer(3, "hot")
    /\ cyc.raised
    /\ cyc.results = <<>>
    /\ Len(cyc.calls) = 1
    /\ cyc.calls[1].op = "list"
    /\ cyc.fleet_after = cyc.fleet

\* The outcomes in the processed list that bear the name of instance k.
OutcomesOf(k) ==
    {j \in DOMAIN cyc.results : cyc.results[j].name = cyc.fleet[k].name}

\* The delete request that precedes call i most closely (0: none).
LastDeleteBefore(i) ==
    MaxOf({d \in CycleCalls("delete") : d < i})

\* C17: an instance of the fetched list has exactly one outcome in the
\* processed list when its usage ratio reaches the threshold, and none when
\* it does not; an instance below the threshold gets no delete request, and
\* every create request belongs to the rebuild of an instance that is due;
\* the report carries the processed list, outcome for outcome.
C17_ProcessedIffRatioReachesThreshold ==
    Listed =>
        /\ \A k \in DOMAIN cyc.fleet :
              Cardinality(OutcomesOf(k)) = IF Due(cyc.fleet[k]) THEN 1 ELSE 0
        /\ \A i \in CycleCalls("delete") :
              \E k \in DOMAIN cyc.fleet :
                  cyc.fleet[k].id = cyc.calls[i].target /\ Due(cyc.fleet[k])
        /\ \A i \in CycleCalls("create") :
              /\ LastDeleteBefore(i) # 0
              /\ cyc.calls[LastDeleteBefore(i)].st = "ok"
        /\ \A i \in CycleCalls("notify") :
              /\ Len(cyc.calls[i].st.processed) = Len(cyc.results)
              /\ \A j \in DOMAIN cyc.results :
                    /\ cyc.calls[i].st.processed[j].name = cyc.results[j].name
                    /\ cyc.calls[i].st.processed[j].success
                           = cyc.results[j].success

\* web-1 has a quota of 0 and web-2 has sent 90 of 100: the pass ends at
\* web-1, and web-2, whose ratio is over the threshold, has no outcome.
C17_Witness ==
    /\ PassDone
    /\ Len(cyc.fleet) = 2
    /\ cyc.fleet[1] = PassServer(1, "zero")
    /\ cyc.fleet[2] = PassServer(2, "hot")
    /\ Due(cyc.fleet[2])
    /\ OutcomesOf(2) = {}
    /\ cyc.raised
    /\ CycleCalls("delete") = {}

CappedSkips ==
    {j \in DOMAIN cyc.results :
        ~cyc.results[j].success /\ cyc.results[j].error = "limit_reached"}

\* C18: with max_servers = N > 0 a pass sends at most N delete requests; an
\* instance with a capped-skip outcome has no other outcome and gets no
\* delete request; with max_servers = 0 there is no capped-skip outcome.
C18_CapOnStartedRebuilds ==
    Listed =>
        /\ mgr.max_servers > 0 =>
              Cardinality(CycleCalls("delete")) <= mgr.max_servers
        /\ \A j \in CappedSkips :
              \A k \in DOMAIN cyc.fleet :
                  cyc.fleet[k].name = cyc.results[j].name =>
                      /\ OutcomesOf(k) = {j}
                      /\ \A i \in CycleCalls("delete") :
                             cyc.calls[i].target # cyc.fleet[k].id
        /\ mgr.max_servers = 0 => CappedSkips = {}

\* The successful outcomes before outcome j.
SuccessesBefore(j) ==
    Cardinality({i \in 1 .. (j - 1) : cyc.results[i].success})

\* C18, as the code has it: the cap counts the rebuilds that succeeded.
\* With max_servers = N > 0 at most N rebuilds of a pass succeed; an
\* instance that is due gets a capped-skip outcome exactly when N rebuilds
\* have succeeded before it, and then it has no other outcome and gets no
\* delete request; with max_servers = 0 there is no capped-skip outcome.
C18_CapOnSuccessfulRebuilds ==
    PassDone =>
        /\ mgr.max_servers > 0 =>
              Cardinality({j \in DOMAIN cyc.results : cyc.results[j].success})
                  <= mgr.max_servers
        /\ \A j \in DOMAIN cyc.results :
              j \in CappedSkips <=>
                  (mgr.max_servers > 0
                     /\ SuccessesBefore(j) >= mgr.max_servers)
        /\ \A j \in CappedSkips :
              \A k \in DOMAIN cyc.fleet :
                  cyc.fleet[k].name = cyc.results[j].name =>
                      /\ OutcomesOf(k) = {j}
                      /\ \A i \in CycleCalls("delete") :
                             cyc.calls[i].target # cyc.fleet[k].id
        /\ mgr.max_servers = 0 => CappedSkips = {}

\* max_servers = 1 and three instances that are due.  The first is deleted
\* and no class is available for its replacement; the second is deleted
\* and rebuilt; the third is skipped: two delete requests, both confirmed.
C18_Witness ==
    /\ PassDone
    /\ mgr.max_servers = 1
    /\ Len(cyc.fleet) = 3
    /\ \A k \in 1 .. 3 : cyc.fleet[k] = PassServer(k, "hot")
    /\ cyc.env.create = <<"error", "error", "201">>
    /\ Len(cyc.results) = 3
    /\ cyc.results[1] = Failure(<<"web", 1>>, "create_failed")
    /\ cyc.results[2].success
    /\ cyc.results[3] = Failure(<<"web", 3>>, "limit_reached")
    /\ Cardinality({i \in CycleCalls("delete") : cyc.calls[i].st = "ok"}) = 2
    /\ \A i \in CycleCalls("delete") : cyc.calls[i].target # 3
    /\ Len(cyc.fleet_after) = 2

\* C19: with a notifier configured, a cycle whose action is
\* PROVISION_INITIAL, TEARDOWN or PROCEED sends exactly one report, and a
\* cycle whose action is NONE sends none.
C19_OneReportPerCycle ==
    (CycleRan /\ mgr.telegram_notifier) =>
        Cardinality(CycleCalls("notify"))
            = IF cyc.action = "NONE" THEN 0 ELSE 1

\* A cycle inside the window with servers_created true, two servers at the
\* provider and a notifier: the list request of the monitoring pass fails,
\* and the cycle ends without a report.
C19_Witness ==
    /\ CycleRan
    /\ mgr.telegram_notifier
    /\ ReadsInside
    /\ cyc.before.servers_created
    /\ cyc.action = "PROCEED"
    /\ cyc.fleet = <<WebServer, IdleServer>>
    /\ cyc.env.list_fail = {1}
    /\ Len(cyc.calls) = 1
    /\ cyc.calls[1] = Call("list", 0, "err")
    /\ CycleCalls("notify") = {}

\* The requests of the rebuilds of a pass.
RebuildCalls == CycleCalls("delete") \cup CycleCalls("poll") \cup CycleCalls("create")

\* C20: a monitoring pass with the reconciler enabled that fetched a list
\* runs the reconciler once (one list request to the registry), after the
\* last request of its rebuilds and a list request to the provider that
\* follows them, and before the report.
C20_ReconcileEveryPass ==
    (Listed /\ mgr.downloader_api /\ ~cyc.raised) =>
        /\ Cardinality(CycleCalls("dl_list")) = 1
        /\ \A s \in CycleCalls("dl_list") :
              /\ \A i \in RebuildCalls : i < s
              /\ \E g \in CycleCalls("list") :
                    /\ g < s
                    /\ \A i \in RebuildCalls : i < g
              /\ \A i \in CycleCalls("notify") : s < i

\* One instance below the threshold, the reconciler enabled, and a
\* downloader of the registry at an address no server holds: the pass sends
\* its report and the reconciler has not run.
C20_Witness ==
    /\ PassDone
    /\ mgr.downloader_api
    /\ mgr.telegram_notifier
    /\ cyc.fleet = <<PassServer(1, "cold")>>
    /\ cyc.env.list_fail = {}
    /\ ~cyc.raised
    /\ CycleCalls("dl_list") = {}
    /\ Cardinality(CycleCalls("list")) = 1
    /\ Cardinality(CycleCalls("notify")) = 1
    /\ cyc.dl_after = SchedDownloaders
    /\ extract_ip_from_url(cyc.dl_after[2].clientUrl) = Some(9)

(***************************************************************************)
(* The reconciler's claims, over SpecSync.  Run(k) is the k-th run; its    *)
(* clients are the records the run works on (those whose alias holds       *)
(* 'Hetzner'), named by their position in the registry.                    *)
(***************************************************************************)
Synced(k) == cyc.kind = "sync" /\ Len(cyc.runs) >= k
Run(k) == cyc.runs[k]
\* The run got as far as computing an assignment.
Planned(k) == Synced(k) /\ Len(Run(k).plan) > 0
Clients(k) ==
    {i \in DOMAIN Run(k).dl_before : InSeq("Hetzner", Run(k).dl_before[i].alias)}
CurrentOf(k, i) == extract_ip_from_url(Run(k).dl_before[i].clientUrl)
FinalOf(k, i) == extract_ip_from_url(Run(k).dl_after[i].clientUrl)
TargetOf(k, i) == DictGet(Run(k).plan, Run(k).dl_before[i].alias)
Referrers(k, a) == {i \in Clients(k) : CurrentOf(k, i) = Some(a)}
Conflicted(k, i) ==
    /\ ~IsNone(CurrentOf(k, i))
    /\ Cardinality(Referrers(k, Get(CurrentOf(k, i)))) > 1
ModifyCalls(k) == {c \in DOMAIN Run(k).calls : Run(k).calls[c].op = "dl_modify"}

\* C21: an address that more than one client record references is never
\* preserved for any client: after sync_downloaders_with_servers every
\* client that referenced a conflicted address has a target different from
\* that address.
C21_ConflictNeverPreserved ==
    \A k \in 1 .. 2 :
        Planned(k) =>
            \A i \in Clients(k) :
                Conflicted(k, i) => TargetOf(k, i) # CurrentOf(k, i)

\* Servers at 1 and 2, two clients both at 1: the first run has assigned
\* address 1 to the first client and address 2 to the second.
C21_Witness ==
    /\ Synced(1)
    /\ cyc.server_ips = <<1, 2>>
    /\ Clients(1) = {1, 2}
    /\ \A i \in Clients(1) : CurrentOf(1, i) = Some(1)
    /\ TargetOf(1, 1) = Some(1)
    /\ TargetOf(1, 2) = Some(2)

FirstRunApplied ==
    /\ Planned(1)
    /\ Run(1).ret.failed = 0
    /\ \A i \in Clients(1) : FinalOf(1, i) = TargetOf(1, i)

\* The k-th run changed nothing: every client kept, no modify request.
AllKept(k) ==
    /\ Run(k).ret = [ updated |-> 0, kept |-> Cardinality(Clients(k)),
                      failed |-> 0 ]
    /\ ModifyCalls(k) = {}
    /\ Run(k).dl_after = Run(k).dl_before

\* C23: reconciling twice is idempotent when no conflicts remain: if the
\* first run's updates all succeeded, the records reflect its assignments
\* and no two records share an address, a second run with the same live
\* addresses returns updated = 0, kept = number of records, failed = 0 and
\* sends no update request.
C23_SecondRunKeepsAll ==
    ( /\ Synced(2)
      /\ FirstRunApplied
      /\ \A i, j \in Clients(2) : i # j => CurrentOf(2, i) # CurrentOf(2, j) )
        => AllKept(2)

\* Servers at 1 and 2, clients at the stale address and at 1: the first run
\* moved the first client to 2, the second run kept both.
C23_Witness ==
    /\ Synced(2)
    /\ cyc.server_ips = <<1, 2>>
    /\ Clients(1) = {1, 2}
    /\ CurrentOf(1, 1) = Some(StaleIp)
    /\ CurrentOf(1, 2) = Some(1)
    /\ Run(1).ret = [updated |-> 1, kept |-> 1, failed |-> 0]
    /\ CurrentOf(2, 1) = Some(2)
    /\ Run(2).ret = [updated |-> 0, kept |-> 2, failed |-> 0]
    /\ ModifyCalls(2) = {}

\* C24: for every list of live addresses and every set of client records,
\* more clients than addresses included, a run over the records that a
\* successful run with the same live addresses produced changes nothing:
\* every client is counted as kept and no update request is sent.
C24_RerunIsNoOp ==
    (Synced(2) /\ FirstRunApplied) => AllKept(2)

\* Servers at 1 and 2, clients at 1, 1, 1 and 2: the first run kept three
\* clients and moved the third to 2 (records 1, 1, 2, 2); the second run
\* moved the second client to 2 and the third back to 1.
C24_Witness ==
    /\ Synced(2)
    /\ FirstRunApplied
    /\ cyc.server_ips = <<1, 2>>
    /\ Clients(1) = {1, 2, 3, 4}
    /\ \A i \in {1, 2, 3} : CurrentOf(1, i) = Some(1)
    /\ CurrentOf(1, 4) = Some(2)
    /\ Run(1).ret = [updated |-> 1, kept |-> 3, failed |-> 0]
    /\ [i \in 1 .. 4 |-> Get(CurrentOf(2, i))] = <<1, 1, 2, 2>>
    /\ Run(2).ret = [updated |-> 2, kept |-> 2, failed |-> 0]
    /\ [i \in 1 .. 4 |-> Get(FinalOf(2, i))] = <<1, 2, 1, 2>>

\* The client's address is one of the servers' and no other client's.
Settled(k, i) ==
    /\ ~IsNone(CurrentOf(k, i))
    /\ InSeq(Get(CurrentOf(k, i)), cyc.server_ips)
    /\ Referrers(k, Get(CurrentOf(k, i))) = {i}
\* Every live address is some client's target.
PoolExhausted(k) ==
    \A a \in DOMAIN cyc.server_ips :
        \E j \in Clients(k) : TargetOf(k, j) = Some(cyc.server_ips[a])

C27_EmptyLiveListIsNoOp ==
    \A k \in 1 .. 2 :
        (Synced(k) /\ Len(cyc.server_ips) = 0) =>
            /\ Run(k).ret = NoSync
            /\ Run(k).calls = <<>>
            /\ Run(k).dl_after = Run(k).dl_before

\* No server address, two clients at the stale address: the run has
\* returned and the call log is empty.
C27_Witness ==
    /\ Synced(1)
    /\ cyc.server_ips = <<>>
    /\ Clients(1) = {1, 2}
    /\ ~cyc.env.dl_list_fail
    /\ \A i \in Clients(1) : CurrentOf(1, i) = Some(StaleIp)
    /\ Run(1).ret = NoSync
    /\ Run(1).calls = <<>>

(***************************************************************************)
(* The bulk operations' claims, over SpecBulk.                             *)
(***************************************************************************)
BulkRan(op) == cyc.kind = "bulk" /\ cyc.op = op /\ cyc.stage = "done"
BulkCreates == SelectSeq(cyc.calls, LAMBDA c : c.op = "create")
\* The create requests the code took as accepted.
Accepted == {p \in DOMAIN BulkCreates : BulkCreates[p].st = "201"}
Succeeded == {i \in DOMAIN cyc.ret : cyc.ret[i].success}
\* The s-th member of a set of positions; 0 for s = 0, one past `last` when
\* the set has fewer members.
NthOf(S, s, last) ==
    IF s = 0 THEN 0
    ELSE IF s > Cardinality(S) THEN last + 1
    ELSE CHOOSE p \in S : Cardinality({q \in S : q <= p}) = s

\* C28: create_initial_servers(count), with an initial snapshot configured,
\* makes exactly count create-with-fallback attempts in order and returns
\* exactly count outcomes, one per attempt; a failed attempt is recorded as
\* a failure outcome and the remaining attempts are still made.  (Each
\* attempt sends requests until one is accepted or its classes are used up:
\* the accepted requests are the successful outcomes, in order, and between
\* two of them lies at least one request for every failed outcome.)
C28_OneOutcomePerAttempt ==
    (BulkRan("create") /\ ~Falsy(mgr.initial_snapshot_id)) =>
        /\ Len(cyc.ret) = cyc.count
        /\ Cardinality(Accepted) = Cardinality(Succeeded)
        /\ \A i \in DOMAIN cyc.ret :
              LET s == Cardinality({j \in Succeeded : j < i})
                  p == NthOf(Accepted, s, Len(BulkCreates))
                  q == NthOf(Accepted, s + 1, Len(BulkCreates))
                  failed_since == (i - 1) - NthOf(Succeeded, s, cyc.count)
              IN  /\ cyc.ret[i].name = InitialName(i)
                  /\ IF cyc.ret[i].success
                     THEN /\ q - p - 1 >= failed_since
                          /\ cyc.ret[i].server_type = BulkCreates[q].target
                          /\ \E k \in DOMAIN cyc.fleet_after :
                                /\ cyc.fleet_after[k].name = InitialName(i)
                                /\ Get(cyc.fleet_after[k].ipv4).ip
                                       = cyc.ret[i].new_ip
                     ELSE /\ cyc.ret[i] = Failure(InitialName(i), "create_failed")
                          /\ q - p - 1 >= failed_since + 1

\* Three servers of class 116 with the answers error, 201, error: the first
\* fails, the second is created, the third fails.
C28_Witness ==
    /\ BulkRan("create")
    /\ cyc.count = 3
    /\ mgr.server_types = <<116>>
    /\ mgr.initial_snapshot_id = Some(7)
    /\ cyc.env.create = <<"error", "201", "error">>
    /\ Len(cyc.ret) = 3
    /\ [i \in 1 .. 3 |-> cyc.ret[i].success] = <<FALSE, TRUE, FALSE>>
    /\ [p \in 1 .. 3 |-> BulkCreates[p].st] = <<"error", "201", "error">>

BulkDeletesSent == SelectSeq(cyc.calls, LAMBDA c : c.op = "delete")

\* C29: delete_all_servers_for_night sends a delete for every instance of
\* the fetched list and returns exactly one outcome per listed instance; a
\* failed or unconfirmed delete of one instance is recorded as a failure
\* outcome and does not prevent the delete of any later instance.
C29_EveryListedInstanceDeleted ==
    BulkRan("delete") =>
        IF 1 \in cyc.env.list_fail
        THEN cyc.ret = <<>> /\ BulkDeletesSent = <<>>
        ELSE /\ Len(cyc.ret) = Len(cyc.fleet)
             /\ [i \in DOMAIN BulkDeletesSent |-> BulkDeletesSent[i].target]
                    = [i \in DOMAIN cyc.fleet |-> cyc.fleet[i].id]
             /\ \A i \in DOMAIN cyc.fleet :
                   LET confirmed ==
                           \E c \in DOMAIN cyc.calls :
                               cyc.calls[c] = Call("poll", cyc.fleet[i].id, "404")
                   IN  /\ cyc.ret[i].name = cyc.fleet[i].name
                       /\ cyc.ret[i].success <=> confirmed
                       /\ ~cyc.ret[i].success =>
                              cyc.ret[i] = Failure(cyc.fleet[i].name,
                                                   "delete_failed")
                       /\ confirmed <=>
                              \A k \in DOMAIN cyc.fleet_after :
                                  cyc.fleet_after[k].id # cyc.fleet[i].id

\* Three servers: the first delete is rejected, the second is never
\* confirmed, the third is confirmed.
C29_Witness ==
    /\ BulkRan("delete")
    /\ Len(cyc.fleet) = 3
    /\ cyc.env.list_fail = {}
    /\ cyc.env.del = <<DeleteErr, DeleteLate, DeleteOk>>
    /\ [i \in 1 .. 3 |-> cyc.ret[i].success] = <<FALSE, FALSE, TRUE>>
    /\ Len(BulkDeletesSent) = 3

\* C30: every rebuild ends after a bounded number of provider calls:
\* rebuild_server (hetzner-monit-neo.py) sends at most 1 delete request, 24
\* existence polls and 3 create requests per configured instance class; the
\* address-preserving rebuild (hetzner.py) sends at most 1 delete request,
\* as many existence polls as its 120 seconds of 5-second waits allow, 12
\* address-release polls and 3 create requests.
C30_BoundedProviderCalls ==
    rb.stage = "done" =>
        /\ Cardinality(Calls("delete")) <= 1
        /\ rb.variant = "neo" =>
              /\ Cardinality(Calls("poll")) <= DeletePolls
              /\ Cardinality(Calls("create"))
                     <= CreateAttempts * Len(mgr.server_types)
              /\ Calls("ip_poll") = {}
        /\ rb.variant = "hz" =>
              /\ Cardinality(Calls("poll")) <= MaxWait \div 5
              /\ Cardinality(Calls("ip_poll")) <= IpRetries
              /\ Cardinality(Calls("create")) <= MaxAttempts

\* rebuild_server with three classes at its ceilings: the delete confirmed
\* by the 24th poll, then three raising create requests for each class.
C30_Witness ==
    /\ rb.stage = "done"
    /\ rb.variant = "neo"
    /\ Len(mgr.server_types) = 3
    /\ Cardinality(Calls("delete")) = 1
    /\ Cardinality(Calls("poll")) = DeletePolls
    /\ Cardinality(Calls("create")) = 3 * CreateAttempts
    /\ ~rb.ret.success

\* C35: in every reachable state of the scheduler, servers_deleted and
\* servers_created are not both true, whatever the clock does, the clock
\* advancing between the separate readings of one cycle included.
C35_FlagsNeverBothTrue ==
    ~(tw.servers_deleted /\ tw.servers_created)

\* After a teardown, a cycle whose reset step read the clock before the
\* window opened and whose provisioning test read it after: the cycle
\* provisions and leaves both flags true.
C35_Witness ==
    /\ CycleRan
    /\ cyc.before.servers_deleted
    /\ ~cyc.before.servers_created
    /\ ~Within(cyc.before, cyc.reads[1])
    /\ Within(cyc.before, cyc.reads[2])
    /\ cyc.after_reset = cyc.before
    /\ cyc.action = "PROVISION_INITIAL"
    /\ tw.servers_deleted
    /\ tw.servers_created

\* C36: the bulk provisioning is started only in a cycle whose list request
\* succeeded and returned no server; a list request that failed never leads
\* to a create request.
C36_ProvisionOnlyOnFetchedEmptyList ==
    (CycleRan /\ cyc.action = "PROVISION_INITIAL") =>
        /\ cyc.calls[1] = Call("list", 0, "ok")
        /\ cyc.fleet = <<>>

\* The provider holds two servers and fails the list request: the cycle
\* provisions, and a create request is answered 201.
C36_Witness ==
    /\ CycleRan
    /\ cyc.action = "PROVISION_INITIAL"
    /\ cyc.calls[1] = Call("list", 0, "err")
    /\ Len(cyc.fleet) = 2
    /\ ~IsNone(mgr.initial_snapshot_id)
    /\ \E i \in CycleCalls("create") : cyc.calls[i].st = "201"
    /\ \E i \in DOMAIN cyc.results : cyc.results[i].success
    /\ tw.servers_created

\* C37: servers_deleted turns true only in a cycle that sent a delete request
\* for every server the provider then held; when the list request of the
\* teardown fails, servers_deleted stays false and the teardown is tried
\* again.
C37_DeletedOnlyAfterDeletingAll ==
    (CycleRan /\ tw.servers_deleted /\ ~cyc.before.servers_deleted) =>
        /\ \A i \in CycleCalls("list") : cyc.calls[i].st = "ok"
        /\ \A k \in DOMAIN cyc.fleet :
               \E i \in CycleCalls("delete") :
                   cyc.calls[i].target = cyc.fleet[k].id

\* The provider holds two servers and fails the list request of the
\* teardown: no delete request is sent and servers_deleted is true.
C37_Witness ==
    /\ CycleRan
    /\ ~cyc.before.servers_deleted
    /\ cyc.action = "TEARDOWN"
    /\ cyc.calls[1] = Call("list", 0, "err")
    /\ Len(cyc.fleet) = 2
    /\ CycleCalls("delete") = {}
    /\ tw.servers_deleted

\* C33: over any sequence of cycles the bulk teardown runs at most once in
\* one continuous out-of-window period and the bulk provisioning at most once
\* in one continuous in-window period: after a teardown no cycle tears down
\* again before the clock has been inside the window, and after a
\* provisioning no cycle provisions again before the clock has been outside
\* the window.
C33_OncePerPeriod ==
    CycleRan =>
        /\ (cyc.torn /\ \A i \in 1 .. 3 : ~Within(cyc.before, cyc.reads[i]))
               => cyc.action # "TEARDOWN"
        /\ (cyc.made /\ \A i \in 1 .. 2 : Within(cyc.before, cyc.reads[i]))
               => cyc.action # "PROVISION_INITIAL"

\* A provisioning ran in a cycle that began before the window opened and left
\* both flags true; the clock has stayed inside the window since, and this
\* cycle, its list empty, provisions a second time.
C33_Witness ==
    /\ CycleRan
    /\ cyc.made
    /\ ReadsInside
    /\ cyc.before.servers_deleted
    /\ cyc.before.servers_created
    /\ cyc.fleet = <<>>
    /\ cyc.calls[1] = Call("list", 0, "ok")
    /\ cyc.action = "PROVISION_INITIAL"
    /\ \E i \in CycleCalls("create") : cyc.calls[i].st = "201"

\* The position of client i among the clients of run k, counted from 0.
Ordinal(k, i) == Cardinality({j \in Clients(k) : j < i})
\* The position of client i's entry in the plan, in insertion order.
PlanIndex(k, i) ==
    CHOOSE j \in DOMAIN Run(k).plan :
        Run(k).plan[j][1] = Run(k).dl_before[i].alias
\* The live addresses are all taken (preserved or popped from the pool) once
\* the plan has as many entries as there are live addresses: client i was
\* reached in the second pass with the pool exhausted.
ByFallback(k, i) == PlanIndex(k, i) > Len(cyc.server_ips)
\* The number of clients whose target is the live address a.
Load(k, a) == Cardinality({i \in Clients(k) : TargetOf(k, i) = Some(a)})

\* C34: in the second pass, once the pool of unassigned live addresses is
\* exhausted, the client at ordinal position i of the record list is assigned
\* live_addresses[i mod n], n the number of live addresses; the position is
\* counted from 0 or from 1, the same way for every client of a run.
C34_FallbackByOrdinalPosition ==
    \A k \in 1 .. 2 :
        Planned(k) =>
            \E base \in {0, 1} :
                \A i \in Clients(k) :
                    ByFallback(k, i) =>
                        TargetOf(k, i) =
                            Some(cyc.server_ips[
                                ((Ordinal(k, i) + base)
                                     % Len(cyc.server_ips)) + 1])

\* Live addresses 1 and 2; clients a and b at a stale address, c at 1, d at
\* the stale address.  c is preserved and a pops 2; b, the second client,
\* gets address 1 and d, the fourth client, gets address 2.
C34_Witness ==
    /\ Planned(1)
    /\ cyc.server_ips = <<1, 2>>
    /\ Clients(1) = 1 .. 4
    /\ CurrentOf(1, 1) = Some(StaleIp)
    /\ CurrentOf(1, 2) = Some(StaleIp)
    /\ CurrentOf(1, 3) = Some(1)
    /\ CurrentOf(1, 4) = Some(StaleIp)
    /\ TargetOf(1, 1) = Some(2)
    /\ ByFallback(1, 2)
    /\ Ordinal(1, 2) = 1
    /\ TargetOf(1, 2) = Some(1)
    /\ ByFallback(1, 4)
    /\ Ordinal(1, 4) = 3
    /\ TargetOf(1, 4) = Some(2)

\* C39: for a non-empty list of distinct live addresses and clients with
\* distinct aliases, the plan of sync_downloaders_with_servers is balanced:
\* the numbers of clients assigned to two live addresses differ by at most
\* one.
C39_PlanIsBalanced ==
    \A k \in 1 .. 2 :
        Planned(k) =>
            LET balanced(load) ==
                    \A a, b \in DOMAIN load : load[a] <= load[b] + 1
            IN  balanced([a \in DOMAIN cyc.server_ips |->
                              Load(k, cyc.server_ips[a])])

\* Four clients at one live address of two: the plan gives each live
\* address two clients, two of them through the fallback.
C39_Witness ==
    /\ Planned(1)
    /\ cyc.server_ips = <<1, 2>>
    /\ Clients(1) = 1 .. 4
    /\ \A i \in 1 .. 4 : CurrentOf(1, i) = Some(1)
    /\ ByFallback(1, 3)
    /\ ByFallback(1, 4)
    /\ Load(1, 1) = 2
    /\ Load(1, 2) = 2

\* The servers the provider holds after the rebuild that the rebuild made.
MadeServers == {i \in DOMAIN rb.fleet : rb.fleet[i].id # rb.server.id}

\* C38: within one call of create_server_with_types (hetzner-monit-neo.py) or
\* create_server_from_snapshot (hetzner.py), once a create request has been
\* answered with status 201 no further create request is sent, so that one
\* rebuild never makes more than one server.
C38_NoCreateAfter201 ==
    rb.stage = "done" =>
        /\ \A i, j \in Calls("create") :
               i < j => rb.calls[i].st \notin {"201", "bad201"}
        /\ Cardinality(MadeServers) <= 1

\* rebuild_server with one class: the first create request is answered 201
\* with a body that cannot be read, the second is answered 201; the provider
\* holds two servers of the same name and the rebuild reports one.
C38_Witness ==
    /\ rb.stage = "done"
    /\ rb.variant = "neo"
    /\ mgr.server_types = <<116>>
    /\ rb.env.create = <<"bad201", "201">>
    /\ Cardinality(Calls("create")) = 2
    /\ rb.calls[Len(rb.calls)] = Call("create", 116, "201")
    /\ Cardinality(MadeServers) = 2
    /\ \A i \in MadeServers : rb.fleet[i].name = rb.server.name
    /\ rb.ret.success

DryRan == cyc.kind = "dry" /\ cyc.stage = "done"
\* The requests that change something at the provider.
Mutating ==
    {"delete", "create", "snapshot", "poweroff", "unassign", "rebuild"}
\* The server is over the threshold and has what its rebuild needs: an
\* address, and for hetzner.py a snapshot image.
DueAndReady(server) ==
    /\ server.included_traffic > 0
    /\ server.outgoing_traffic * 100
           > mgr.traffic_threshold * server.included_traffic
    /\ ~IsNone(server.ipv4)
    /\ mgr.variant = "hz" => ~Falsy(SnapshotId(server))

\* C40: with dry_run true, check_and_process_servers of hetzner.py and of
\* part_000 sends no mutating request to the provider (no snapshot,
\* power-off, unassign, delete, create or rebuild) and, the list fetched,
\* records a successful outcome for every server over the threshold that has
\* its prerequisites.
C40_PreviewChangesNothing ==
    (DryRan /\ cyc.dry_run) =>
        /\ \A i \in DOMAIN cyc.calls : cyc.calls[i].op \notin Mutating
        /\ cyc.fleet_after = cyc.fleet
        /\ cyc.calls[1] = Call("list", 0, "ok") =>
               \A k \in DOMAIN cyc.fleet :
                   DueAndReady(cyc.fleet[k]) =>
                       \E j \in DOMAIN cyc.results :
                           /\ cyc.results[j].name = cyc.fleet[k].name
                           /\ cyc.results[j].success

\* The preview of hetzner.py over web-1 with quota 0 and web-2 at 90 of 100
\* with snapshot and address: the pass raises at web-1, sends nothing but the
\* list request and records no outcome for web-2.
C40_Witness ==
    /\ DryRan
    /\ cyc.dry_run
    /\ mgr.variant = "hz"
    /\ Len(cyc.fleet) = 2
    /\ cyc.fleet[1].included_traffic = 0
    /\ DueAndReady(cyc.fleet[2])
    /\ cyc.raised
    /\ cyc.calls = <<Call("list", 0, "ok")>>
    /\ cyc.results = <<>>

\* C31: run_monitor never ends because of an error raised inside a cycle:
\* when check_and_process_servers raises, the loop goes to the except
\* clause's sleep of 60 seconds and from there to a further cycle; the loop
\* is left only by a KeyboardInterrupt, and once it is left no cycle runs.
C31_ErrorsNeverEndTheLoop ==
    [][ /\ (pc \in {"check", "running"} /\ pc' \notin {"check", "running"}) =>
              \/ /\ cyc'.kind = "cycle"
                 /\ pc' = IF cyc'.raised THEN "cooldown" ELSE "countdown"
              \/ /\ prev'.cause = "KeyboardInterrupt" /\ pc' = "stopped"
        /\ (pc = "cooldown" /\ pc' # "cooldown") =>
              \/ /\ pc' = "check" /\ prev'.slept = CooldownSecs
              \/ /\ prev'.cause = "KeyboardInterrupt" /\ pc' = "stopped"
        /\ (pc # "stopped" /\ pc' = "stopped") => prev'.cause = "KeyboardInterrupt"
        /\ pc = "stopped" => UNCHANGED vars ]_vars

\* A cycle raised (ZeroDivisionError on a server of quota 0), the loop slept
\* its cooldown, and the cycle after it, which rebuilt web-1, has ended: the
\* loop is at its countdown.
C31_Witness ==
    /\ pc = "countdown"
    /\ prev = Step("check", 0, "cycle", TRUE)
    /\ cyc.kind = "cycle"
    /\ ~cyc.raised
    /\ cyc.fleet = <<PassServer(1, "hot")>>
    /\ \E i \in DOMAIN cyc.calls : cyc.calls[i].op = "create"

\* C32: however the status handlers (/api/servers/ips, /api/servers/status)
\* interleave with the control loop, a handler sends no delete and no create
\* request, sends nothing to the registry, and changes neither the scheduler
\* flags nor any other field of the manager nor the loop's position: it only
\* lists the servers.
C32_StatusHandlersOnlyRead ==
    [][ rb' # rb =>
            /\ rb'.kind = "api"
            /\ \A i \in DOMAIN rb'.calls : rb'.calls[i].op = "list"
            /\ Len(rb'.calls) = 1
            /\ UNCHANGED <<tw, mgr, pc, cyc, prev, now>> ]_vars

\* The loop is inside a cycle, between the delete of web-1 and the create
\* that follows it, and /api/servers/ips has answered with the one running
\* server of the two the provider lists.
C32_Witness ==
    /\ pc = "running"
    /\ cyc.kind = "running"
    /\ \E i \in DOMAIN cyc.calls : cyc.calls[i].op = "delete"
    /\ \A i \in DOMAIN cyc.calls : cyc.calls[i].op # "create"
    /\ rb.kind = "api"
    /\ rb.route = "ips"
    /\ rb.code = 200
    /\ Len(rb.fleet) = 2
    /\ rb.count = 1
    /\ rb.calls = <<Call("list", 0, "ok")>>
====
